---------------------------- MODULE Spec2Model ----------------------------
(***************************************************************************)
(* Model of the dispatch-and-delivery core of the MeshCore bot             *)
(* (modules/command_manager.py): the message splitter, the delivery        *)
(* pipeline, the matching engine and the execution gate.                   *)
(*                                                                         *)
(* Text is a sequence of characters; a character is a one-element string,  *)
(* except the three tokens "U2", "U3" and "U4", which stand for one code   *)
(* point whose UTF-8 encoding takes 2, 3 and 4 bytes.                      *)
(***************************************************************************)
EXTENDS Integers, Sequences, FiniteSets, TLC

VARIABLES
    sp_pc,          \* splitter run: "call" before split_message, then "returned", "hung" or "raised"
    sp_content,     \* split_message's argument content
    sp_max_bytes,   \* split_message's argument max_bytes
    sp_parts,       \* the list split_message returned
    sp_cuts,        \* the cuts its loop made: remaining, byte budget, byte-safe index, split_index, rest
    dl_content,     \* per send call: its argument content
    dl_pc,          \* per send call: the suspension point it is at
    dl_parts,       \* per send call: parts, the list split_message returned
    dl_i,           \* per send call: i, the loop index over parts (0-based)
    dl_sleep,       \* per send call: seconds left of its asyncio.sleep
    dl_result,      \* per send call: "pending", or the returned "True" / "False"
    dl_log,         \* per send call: its calls of the transport and the results classified
    dl_last,        \* per send call: the last transport result and what _handle_send_result returned
    dl_steps,       \* per send call: the steps its current single-part send has taken
    dl_username,    \* the display name send_channel_message read from self_info
    rl_wait,        \* bot.rate_limiter: seconds until can_send() holds again
    rl_records,     \* bot.rate_limiter: number of record_send() calls
    tx_records,     \* bot.bot_tx_rate_limiter: number of record_tx() calls
    cm_commands,    \* self.commands: the registered plugins in load order
    cm_keywords,    \* self.keywords: the configured keywords in order
    cm_last_response, \* whether self._last_response is set
    msg_content,    \* message.content of the incoming message
    mt_pc,          \* check_keywords: "idle", then "returned"
    mt_matches,     \* the list check_keywords returned
    mt_filtered,    \* the commands check_keywords skipped for the failed connectivity check
    ic_cache,       \* self._internet_cache: whether it is_valid, and has_internet
    ex_pc,          \* execute_commands: the suspension point it is at
    ex_k,           \* execute_commands: position of the command it handles
    ex_considered,  \* the commands execute_commands took to the gate
    ex_gate,        \* what the gate answered the commands that could not execute now
    ex_executed,    \* the commands whose execute() was called
    ex_raised,      \* the commands whose execute() raised an exception
    ex_responses,   \* the responses sent while execute_commands ran
    ex_delivered,   \* what the awaited send_response calls of execute_commands returned
    ex_stats,       \* the record_command calls
    ex_recorded,    \* per command launched: whether it has _record_execution, which was then called
    ch_now,         \* cache runs: time.time()
    ch_entry,       \* cache runs: has_internet and timestamp of self._internet_cache
    ch_origin,      \* cache runs: when the probe began that has_internet comes from
    ch_lock,        \* cache runs: _internet_cache._lock: "None", "free" or its holder
    ch_pc,          \* per async caller: "idle", "waiting" for the lock or "probing"
    ch_current_time, \* per async caller: current_time
    ch_seen,        \* per async caller: the number of probes finished when it checked the entry
    ch_waited,      \* per async caller: whether it had to wait for the lock
    ch_probes,      \* cache runs: the probes finished, in the order they updated the entry
    ch_returns,     \* cache runs: the values _check_internet_cached_async returned
    ch_sync,        \* cache runs: the last call of _check_internet_cached, what it found and returned
    cd_now,         \* cooldown runs: time.time()
    cd_command,     \* cooldown runs: the command the messages match
    cd_last_execution, \* cooldown runs: the execution time the command recorded last, if any
    cd_log          \* cooldown runs: what execute_commands did with each message

sp_vars == <<sp_pc, sp_content, sp_max_bytes, sp_parts, sp_cuts>>
dl_vars == <<dl_content, dl_pc, dl_parts, dl_i, dl_sleep, dl_result, dl_log, dl_last, dl_steps, dl_username,
             rl_wait, rl_records, tx_records>>
ex_vars == <<ex_pc, ex_k, ex_considered, ex_gate, ex_executed, ex_raised, ex_responses, ex_delivered,
             ex_stats, ex_recorded,
             cm_last_response>>
ds_vars == <<cm_commands, cm_keywords, msg_content, mt_pc, mt_matches, mt_filtered, ic_cache, ex_vars>>
ch_vars == <<ch_now, ch_entry, ch_origin, ch_lock, ch_pc, ch_current_time, ch_seen, ch_waited,
             ch_probes, ch_returns, ch_sync>>
cd_vars == <<cd_now, cd_command, cd_last_execution, cd_log>>
vars == <<sp_vars, dl_vars, ds_vars, ch_vars, cd_vars>>

(***************************************************************************)
(* Python's str and int primitives used by the code.                       *)
(***************************************************************************)
Max(S) == CHOOSE x \in S : \A y \in S : y <= x
Min(S) == CHOOSE x \in S : \A y \in S : x <= y

\* text[:k] and text[k:] for 0 <= k
Take(text, k) == SubSeq(text, 1, IF k < Len(text) THEN k ELSE Len(text))
Drop(text, k) == SubSeq(text, k + 1, Len(text))

\* len(c.encode('utf-8')) of one character
Utf8Len(c) == CASE c = "U2" -> 2 [] c = "U3" -> 3 [] c = "U4" -> 4 [] OTHER -> 1

\* len(text.encode('utf-8')): every character counts for its encoded width
ByteLen(text) ==
    LET Wide(w) == Cardinality({i \in 1..Len(text) : Utf8Len(text[i]) = w})
    IN  Wide(1) + 2 * Wide(2) + 3 * Wide(3) + 4 * Wide(4)

\* str.isspace() of one character, as str.strip() uses it
IsSpace(c) == c \in {" ", "\n", "\t", "\r"}

\* text.lstrip()
LStrip(text) ==
    LET solid == {i \in 1..Len(text) : ~IsSpace(text[i])}
    IN  IF solid = {} THEN <<>> ELSE Drop(text, Min(solid) - 1)

\* text.rstrip()
RStrip(text) ==
    LET solid == {i \in 1..Len(text) : ~IsSpace(text[i])}
    IN  IF solid = {} THEN <<>> ELSE Take(text, Max(solid))

\* text.strip()
Strip(text) == LStrip(RStrip(text))

\* text.startswith(pat)
StartsWith(text, pat) == Len(pat) <= Len(text) /\ SubSeq(text, 1, Len(pat)) = pat

\* 0-based indices at which pat occurs in text
Occurrences(text, pat) ==
    {i \in 0..(Len(text) - Len(pat)) : SubSeq(text, i + 1, i + Len(pat)) = pat}

\* text.rfind(pat) and text.find(pat): -1 when pat does not occur
RFind(text, pat) == IF Occurrences(text, pat) = {} THEN -1 ELSE Max(Occurrences(text, pat))
Find(text, pat) == IF Occurrences(text, pat) = {} THEN -1 ELSE Min(Occurrences(text, pat))

\* Python's floor division a // b for b # 0
FloorDiv(a, b) == IF b > 0 THEN a \div b ELSE (0 - a) \div (0 - b)

\* str(n) for an integer n
RECURSIVE IntToStr(_)
IntToStr(n) ==
    IF n < 0 THEN <<"-">> \o IntToStr(0 - n)
    ELSE IF n < 10 THEN <<(<<"0", "1", "2", "3", "4", "5", "6", "7", "8", "9">>)[n + 1]>>
    ELSE IntToStr(n \div 10) \o IntToStr(n % 10)

\* unit * k
Repeat(unit, k) == [i \in 1..(k * Len(unit)) |-> unit[((i - 1) % Len(unit)) + 1]]

(***************************************************************************)
(* Message splitter: CommandManager.split_message.                         *)
(***************************************************************************)
MAX_MESSAGE_BYTES == 150

\* prefix_overhead = 7
prefix_overhead == 7

\* f"[{part_num}/{estimated_parts}] "
PartPrefix(part_num, total) ==
    <<"[">> \o IntToStr(part_num) \o <<"/">> \o IntToStr(total) \o <<"]", " ">>

\* Mutant of ByteSafeSearch: the budget is counted in characters
ByteSafeSearchByChars(text, max_bytes, low, high) ==
    IF max_bytes < high THEN Max({max_bytes, low}) ELSE high

\* the binary search of _find_byte_safe_split
RECURSIVE ByteSafeSearch(_, _, _, _)
ByteSafeSearch(text, max_bytes, low, high) ==
    IF low < high
    THEN LET mid == (low + high + 1) \div 2
         IN  IF ByteLen(Take(text, mid)) <= max_bytes
             THEN ByteSafeSearch(text, max_bytes, mid, high)
             ELSE ByteSafeSearch(text, max_bytes, low, mid - 1)
    ELSE low

\* Mutant of FindByteSafeSplit: the index found is one character short
FindByteSafeSplitShort(text, max_bytes) ==
    IF ByteLen(text) <= max_bytes THEN Len(text)
    ELSE Max({0, ByteSafeSearch(text, max_bytes, 0, Len(text)) - 1})

\* CommandManager._find_byte_safe_split
FindByteSafeSplit(text, max_bytes) ==
    IF ByteLen(text) <= max_bytes THEN Len(text)
    ELSE ByteSafeSearch(text, max_bytes, 0, Len(text))

\* One for-loop over a list of punctuation marks: the cut after the first mark of
\* the list whose last occurrence lies past the chunk's midpoint, -1 for the else branch.
PunctCut(chunk, puncts) ==
    LET hits == {i \in 1..Len(puncts) : RFind(chunk, puncts[i]) > Len(chunk) \div 2}
    IN  IF hits = {} THEN -1
        ELSE RFind(chunk, puncts[Min(hits)]) + Len(puncts[Min(hits)])

\* Mutant of LogicalSplit: a comma or semicolon is preferred to a sentence end
LogicalSplitClauseFirst(chunk, split_index) ==
    LET half == Len(chunk) \div 2
        newline_pos == RFind(chunk, <<"\n">>)
        sentence == PunctCut(chunk, << <<".", " ">>, <<"!", " ">>, <<"?", " ">> >>)
        clause == PunctCut(chunk, << <<",", " ">>, <<";", " ">> >>)
        space_pos == RFind(chunk, <<" ">>)
    IN  IF newline_pos > half THEN newline_pos + 1
        ELSE IF clause # -1 THEN clause
        ELSE IF sentence # -1 THEN sentence
        ELSE IF space_pos > half THEN space_pos + 1
        ELSE split_index

\* The split index chosen for the chunk remaining[:split_index]
LogicalSplit(chunk, split_index) ==
    LET half == Len(chunk) \div 2
        newline_pos == RFind(chunk, <<"\n">>)
        sentence == PunctCut(chunk, << <<".", " ">>, <<"!", " ">>, <<"?", " ">> >>)
        clause == PunctCut(chunk, << <<",", " ">>, <<";", " ">> >>)
        space_pos == RFind(chunk, <<" ">>)
    IN  IF newline_pos > half THEN newline_pos + 1
        ELSE IF sentence # -1 THEN sentence
        ELSE IF clause # -1 THEN clause
        ELSE IF space_pos > half THEN space_pos + 1
        ELSE split_index

\* part_content = remaining[:split_index].rstrip()
PartContent(remaining, split_index) == RStrip(Take(remaining, split_index))

\* Mutant of Remainder: the cut skips the character at split_index
RemainderSkipsOne(remaining, split_index) == LStrip(Drop(remaining, split_index + 1))

\* remaining = remaining[split_index:].lstrip()
Remainder(remaining, split_index) == LStrip(Drop(remaining, split_index))

\* The while loop of split_message. The loop never ends when an iteration leaves
\* remaining as it was (split_index = 0): later prefixes are no shorter. cuts
\* keeps, for each iteration that cut a part off, what it worked on and chose.
RECURSIVE SplitLoop(_, _, _, _, _, _)
SplitLoop(remaining, part_num, estimated_parts, max_bytes, parts, cuts) ==
    IF remaining = <<>> THEN [outcome |-> "returned", parts |-> parts, cuts |-> cuts]
    ELSE
    LET prefix == PartPrefix(part_num, estimated_parts)
        available_bytes == max_bytes - ByteLen(prefix)
    IN  IF ByteLen(remaining) <= available_bytes
        THEN [outcome |-> "returned", parts |-> Append(parts, prefix \o remaining), cuts |-> cuts]
        ELSE
        LET byte_safe == FindByteSafeSplit(remaining, available_bytes)
            split_index == LogicalSplit(Take(remaining, byte_safe), byte_safe)
            part_content == PartContent(remaining, split_index)
            rest == Remainder(remaining, split_index)
            cut == [remaining |-> remaining, available_bytes |-> available_bytes,
                    byte_safe |-> byte_safe, split_index |-> split_index, rest |-> rest]
        IN  IF rest = remaining
            THEN [outcome |-> "hung", parts |-> Append(parts, prefix \o part_content),
                  cuts |-> Append(cuts, cut)]
            ELSE SplitLoop(rest, part_num + 1, estimated_parts, max_bytes,
                           Append(parts, prefix \o part_content), Append(cuts, cut))

\* Mutant of Renumber: the parts keep the prefixes written with the estimate
RenumberSkipped(parts, estimated_parts) == parts

\* The renumbering pass: "Update part numbers if estimate was wrong"
Renumber(parts, estimated_parts) ==
    IF Len(parts) # estimated_parts
    THEN [i \in 1..Len(parts) |->
            LET old_prefix_end == Find(parts[i], <<"]", " ">>) + 2
            IN  PartPrefix(i, Len(parts)) \o Drop(parts[i], old_prefix_end)]
    ELSE parts

\* estimated_parts of split_message, for content that does not fit max_bytes
EstimatedParts(content, max_bytes) ==
    FloorDiv(ByteLen(content) + (max_bytes - prefix_overhead) - 1, max_bytes - prefix_overhead)

\* Mutant of WholeContent: the content is returned without its outer whitespace
WholeContentStripped(content) == <<Strip(content)>>

\* "return [content]": the list returned for a content that fits
WholeContent(content) == <<content>>

\* CommandManager.split_message(content, max_bytes)
SplitMessage(content, max_bytes) ==
    IF ByteLen(content) <= max_bytes
    THEN [outcome |-> "returned", parts |-> WholeContent(content), cuts |-> <<>>]
    ELSE
    LET effective_max == max_bytes - prefix_overhead
    IN  IF effective_max = 0 THEN [outcome |-> "raised", parts |-> <<>>, cuts |-> <<>>]
        ELSE
        LET estimated_parts == EstimatedParts(content, max_bytes)
            loop == SplitLoop(content, 1, estimated_parts, max_bytes, <<>>, <<>>)
        IN  IF loop.outcome = "returned"
            THEN [outcome |-> "returned", parts |-> Renumber(loop.parts, estimated_parts),
                  cuts |-> loop.cuts]
            ELSE loop

(***************************************************************************)
(* Delivery pipeline: send_dm, send_channel_message and their helpers.     *)
(* One send_dm call and one send_channel_message call run as asyncio tasks *)
(* and interleave at their awaits.                                         *)
(***************************************************************************)
Tasks == {"dm", "chan"}

\* operation_name as the two _single helpers pass it to _handle_send_result
OperationName(t) == IF t = "dm" THEN "DM" ELSE "Channel message"

\* await asyncio.sleep(2.0) between the parts of one message
InterPartPause == 2

\* "Fallback: assume ~15 byte username + ': '"
UsernameFallbackBytes == 17

\* The display names self_info can hold; <<>> is a missing or empty name
Usernames == {<<>>, <<"B", "o", "t">>}

\* max_bytes of send_channel_message for the display name read
ChannelMaxBytes(username) ==
    IF username # <<>>
    THEN MAX_MESSAGE_BYTES - ByteLen(username) - 2
    ELSE MAX_MESSAGE_BYTES - UsernameFallbackBytes

\* bot.rate_limiter, the per-caller limiter: a send is admitted once the seconds
\* configured have passed since the last recorded send.
RateLimitSeconds == 3
CanSend == rl_wait = 0
TimeUntilNext == rl_wait

\* What awaiting the transport's send primitive can produce: nothing (None), an
\* event with a type and a payload, an object without a type attribute, or an
\* exception.
NoResult == [raises |-> "", truthy |-> FALSE, has_type |-> FALSE, type |-> "", reason |-> ""]
Untyped == [raises |-> "", truthy |-> TRUE, has_type |-> FALSE, type |-> "", reason |-> ""]
Event(type, reason) ==
    [raises |-> "", truthy |-> TRUE, has_type |-> TRUE, type |-> type, reason |-> reason]
Raises(exception) ==
    [raises |-> exception, truthy |-> FALSE, has_type |-> FALSE, type |-> "", reason |-> ""]
TransportResults ==
    {NoResult, Untyped, Event("ERROR", ""), Event("ERROR", "no_event_received"),
     Event("MSG_SENT", ""), Event("OK", ""),
     Event("OTHER", "no_event_received"), Event("OTHER", "")}
TransportOutcomes == TransportResults \cup {Raises("Exception"), Raises("AttributeError")}

\* Mutant of HandleSendResult: the no_event_received case is not kept to channel sends
HandleSendResultAnyOperation(result, operation_name) ==
    IF ~result.truthy THEN FALSE
    ELSE IF result.has_type
    THEN IF result.type = "ERROR" THEN FALSE
         ELSE IF result.type \in {"MSG_SENT", "OK"} THEN TRUE
         ELSE result.reason = "no_event_received"
    ELSE TRUE

\* CommandManager._handle_send_result: the value returned; when it is TRUE the
\* handler has called record_send() and record_tx().
HandleSendResult(result, operation_name) ==
    IF ~result.truthy THEN FALSE
    ELSE IF result.has_type
    THEN IF result.type = "ERROR" THEN FALSE
         ELSE IF result.type \in {"MSG_SENT", "OK"} THEN TRUE
         ELSE IF operation_name = "Channel message" /\ result.reason = "no_event_received"
              THEN TRUE
              ELSE FALSE
    ELSE TRUE

\* Mutant of Recorded: every classified result is recorded
RecordedAlways(success, records) == records + 1

\* record_send() / record_tx() in _handle_send_result: called on the branches
\* that return True and on no other
Recorded(success, records) == IF success THEN records + 1 ELSE records

\* Mutant of LoopStep: no break after a failed part
LoopStepNoBreak(success, i, n) ==
    IF i < n - 1 THEN [pc |-> "pause", result |-> "pending"]
    ELSE [pc |-> "done", result |-> IF success THEN "True" ELSE "False"]

\* Mutant of LoopStep: the pause follows every part sent, the last one too
LoopStepPausesAfterLast(success, i, n) ==
    IF ~success THEN [pc |-> "done", result |-> "False"]
    ELSE [pc |-> "pause", result |-> "pending"]

\* The loop body of send_dm / send_channel_message after part i (0-based) of n was
\* attempted: break and return False, pause before the next part, or return True.
LoopStep(success, i, n) ==
    IF ~success THEN [pc |-> "done", result |-> "False"]
    ELSE IF i < n - 1 THEN [pc |-> "pause", result |-> "pending"]
    ELSE [pc |-> "done", result |-> "True"]

\* The call takes the step a loop iteration ended with
TakeStep(t, step, i) ==
    /\ dl_pc' = [dl_pc EXCEPT ![t] = step.pc]
    /\ dl_result' = [dl_result EXCEPT ![t] = step.result]
    /\ dl_sleep' = [dl_sleep EXCEPT ![t] = IF step.pc = "pause" THEN InterPartPause ELSE 0]
    /\ dl_i' = [dl_i EXCEPT ![t] = i]

\* Mutant of CheckRateLimits: a wait of at most 0.1 seconds lets the send through
CheckRateLimitsAdmitsShortWait(can_send, wait_over_100ms) ==
    IF ~can_send /\ wait_over_100ms
    THEN [admitted |-> FALSE, reason |-> "Rate limited", steps |-> <<"limiter_rejects">>]
    ELSE [admitted |-> TRUE, reason |-> "",
          steps |-> <<IF can_send THEN "limiter_admits" ELSE "limiter_rejects", "wait_for_tx">>]

\* CommandManager._check_rate_limits up to its first await, for what the
\* per-caller limiter answers: can_send(), and whether time_until_next() is
\* over 0.1 seconds. admitted: the call goes on to await wait_for_tx(); reason:
\* the text returned with False; steps: the calls made, in order.
CheckRateLimits(can_send, wait_over_100ms) ==
    IF ~can_send
    THEN [admitted |-> FALSE, reason |-> IF wait_over_100ms THEN "Rate limited" ELSE "",
          steps |-> <<"limiter_rejects">>]
    ELSE [admitted |-> TRUE, reason |-> "", steps |-> <<"limiter_admits", "wait_for_tx">>]

\* The loop reaches part i (0-based) of n and its _single helper runs
\* _check_rate_limits up to the first await: rejected by the per-caller limiter
\* (the helper logs the reason, if any, and returns False), or waiting for
\* wait_for_tx(). In the last second of the limiter's wait the time left may be
\* over or under 0.1 seconds.
StartPart(t, i, n) ==
    \E wait_over_100ms \in (IF rl_wait = 1 THEN BOOLEAN ELSE {TRUE}) :
       LET check == CheckRateLimits(CanSend, wait_over_100ms)
       IN  /\ TakeStep(t, IF check.admitted THEN [pc |-> "wait_tx", result |-> "pending"]
                           ELSE LoopStep(FALSE, i, n), i)
           /\ dl_steps' = [dl_steps EXCEPT ![t] =
                  check.steps \o (IF check.reason # "" THEN <<"warning">> ELSE <<>>)]

NoLast == [set |-> FALSE, result |-> NoResult, ok |-> FALSE]

\* send_dm / send_channel_message from the call to the first await
SendStart(t) ==
    /\ dl_pc[t] = "idle"
    /\ \E connected \in BOOLEAN, username \in (IF t = "chan" THEN Usernames ELSE {dl_username}) :
         IF ~connected
         THEN /\ TakeStep(t, [pc |-> "done", result |-> "False"], dl_i[t])
              /\ UNCHANGED <<dl_parts, dl_username, dl_steps>>
         ELSE LET max_bytes == IF t = "dm" THEN MAX_MESSAGE_BYTES ELSE ChannelMaxBytes(username)
                  split == SplitMessage(dl_content[t], max_bytes)
              IN  /\ dl_username' = username
                  /\ dl_parts' = [dl_parts EXCEPT ![t] = split.parts]
                  /\ IF split.outcome # "returned"
                     THEN /\ TakeStep(t, [pc |-> split.outcome, result |-> "pending"], dl_i[t])
                          /\ UNCHANGED dl_steps
                     ELSE IF split.parts = <<>>
                     THEN /\ TakeStep(t, [pc |-> "done", result |-> "True"], dl_i[t])
                          /\ UNCHANGED dl_steps
                     ELSE StartPart(t, 0, Len(split.parts))
    /\ UNCHANGED <<dl_content, dl_log, dl_last, rl_wait, rl_records, tx_records, sp_vars, ds_vars, ch_vars, cd_vars>>

\* Mutant of TxAdmitted: the send primitive is called as soon as wait_for_tx() returns
TxAdmittedSendsAtOnce(t) ==
    /\ dl_pc[t] = "wait_tx"
    /\ dl_pc' = [dl_pc EXCEPT ![t] = "sending"]
    /\ dl_steps' = [dl_steps EXCEPT ![t] = Append(@, "send")]
    /\ dl_log' = [dl_log EXCEPT ![t] =
                     Append(@, [ev |-> "hand", part |-> dl_i[t] + 1, ok |-> FALSE])]
    /\ UNCHANGED <<dl_content, dl_parts, dl_i, dl_sleep, dl_result, dl_last,
                   dl_username, rl_wait, rl_records, tx_records, sp_vars, ds_vars, ch_vars, cd_vars>>

\* _check_rate_limits: wait_for_tx() has admitted the send; _apply_tx_delay sleeps
TxAdmitted(t) ==
    /\ dl_pc[t] = "wait_tx"
    /\ dl_pc' = [dl_pc EXCEPT ![t] = "tx_delay"]
    /\ dl_steps' = [dl_steps EXCEPT ![t] = Append(@, "tx_delay")]
    /\ UNCHANGED <<dl_content, dl_parts, dl_i, dl_sleep, dl_result, dl_log, dl_last,
                   dl_username, rl_wait, rl_records, tx_records, sp_vars, ds_vars, ch_vars, cd_vars>>

\* Mutant of Transmit: the send primitive is called without a destination
TransmitWithoutDestination(t) ==
    /\ dl_pc[t] = "tx_delay"
    /\ \E resolved \in BOOLEAN :
         /\ dl_pc' = [dl_pc EXCEPT ![t] = "sending"]
         /\ dl_log' = [dl_log EXCEPT ![t] =
                          Append(@, [ev |-> "hand", part |-> dl_i[t] + 1, ok |-> FALSE])]
         /\ dl_steps' = [dl_steps EXCEPT ![t] =
                            @ \o <<IF resolved THEN "resolved" ELSE "unresolved", "send">>]
    /\ dl_last' = [dl_last EXCEPT ![t] = NoLast]
    /\ UNCHANGED <<dl_i, dl_sleep, dl_result, dl_content, dl_parts, dl_username, rl_wait,
                   rl_records, tx_records, sp_vars, ds_vars, ch_vars, cd_vars>>

\* _send_dm_single / _send_channel_message_single after the transmission delay:
\* resolve the destination and call the transport's send primitive
Transmit(t) ==
    /\ dl_pc[t] = "tx_delay"
    /\ \E resolved \in BOOLEAN :
         IF resolved
         THEN /\ dl_pc' = [dl_pc EXCEPT ![t] = "sending"]
              /\ dl_log' = [dl_log EXCEPT ![t] =
                               Append(@, [ev |-> "hand", part |-> dl_i[t] + 1, ok |-> FALSE])]
              /\ dl_steps' = [dl_steps EXCEPT ![t] = @ \o <<"resolved", "send">>]
              /\ UNCHANGED <<dl_i, dl_sleep, dl_result>>
         ELSE /\ TakeStep(t, LoopStep(FALSE, dl_i[t], Len(dl_parts[t])), dl_i[t])
              /\ dl_steps' = [dl_steps EXCEPT ![t] = Append(@, "unresolved")]
              /\ UNCHANGED dl_log
    /\ dl_last' = [dl_last EXCEPT ![t] = NoLast]
    /\ UNCHANGED <<dl_content, dl_parts, dl_username, rl_wait, rl_records, tx_records, sp_vars, ds_vars, ch_vars, cd_vars>>

\* The awaited send primitive ends: with a result, which _handle_send_result
\* classifies, or with an exception. An AttributeError out of the first call of
\* _send_dm_single is answered by calling send_msg with the same part.
SendResult(t) ==
    /\ dl_pc[t] \in {"sending", "sending_fallback"}
    /\ \E outcome \in TransportOutcomes :
         IF outcome.raises = "AttributeError" /\ t = "dm" /\ dl_pc[t] = "sending"
         THEN /\ dl_pc' = [dl_pc EXCEPT ![t] = "sending_fallback"]
              /\ dl_log' = [dl_log EXCEPT ![t] =
                               Append(@, [ev |-> "hand", part |-> dl_i[t] + 1, ok |-> FALSE])]
              /\ dl_steps' = [dl_steps EXCEPT ![t] = Append(@, "send")]
              /\ UNCHANGED <<dl_i, dl_sleep, dl_result, dl_last, rl_wait, rl_records, tx_records>>
         ELSE IF outcome.raises # ""
         THEN /\ TakeStep(t, LoopStep(FALSE, dl_i[t], Len(dl_parts[t])), dl_i[t])
              /\ UNCHANGED <<dl_log, dl_last, dl_steps, rl_wait, rl_records, tx_records>>
         ELSE LET ok == HandleSendResult(outcome, OperationName(t))
              IN  /\ UNCHANGED dl_steps
                  /\ dl_last' = [dl_last EXCEPT ![t] = [set |-> TRUE, result |-> outcome, ok |-> ok]]
                  /\ dl_log' = [dl_log EXCEPT ![t] =
                                   Append(@, [ev |-> "result", part |-> dl_i[t] + 1, ok |-> ok])]
                  /\ rl_wait' = IF ok THEN RateLimitSeconds ELSE rl_wait
                  /\ rl_records' = Recorded(ok, rl_records)
                  /\ tx_records' = Recorded(ok, tx_records)
                  /\ TakeStep(t, LoopStep(ok, dl_i[t], Len(dl_parts[t])), dl_i[t])
    /\ UNCHANGED <<dl_content, dl_parts, dl_username, sp_vars, ds_vars, ch_vars, cd_vars>>

\* asyncio.sleep(2.0) is over: the loop goes on to the next part
PauseOver(t) ==
    /\ dl_pc[t] = "pause"
    /\ dl_sleep[t] = 0
    /\ StartPart(t, dl_i[t] + 1, Len(dl_parts[t]))
    /\ dl_last' = [dl_last EXCEPT ![t] = NoLast]
    /\ UNCHANGED <<dl_content, dl_parts, dl_log, dl_username, rl_wait, rl_records,
                   tx_records, sp_vars, ds_vars, ch_vars, cd_vars>>

\* One second passes
Tick ==
    /\ rl_wait > 0 \/ \E t \in Tasks : dl_sleep[t] > 0
    /\ rl_wait' = IF rl_wait > 0 THEN rl_wait - 1 ELSE 0
    /\ dl_sleep' = [t \in Tasks |-> IF dl_sleep[t] > 0 THEN dl_sleep[t] - 1 ELSE 0]
    /\ UNCHANGED <<dl_content, dl_pc, dl_parts, dl_i, dl_result, dl_log, dl_last, dl_steps,
                   dl_username, rl_records, tx_records, sp_vars, ds_vars, ch_vars, cd_vars>>

\* The messages of the delivery runs: one that fits, one of three parts, and one
\* that a budget of 133 bytes splits into ten parts where six were estimated
OnePartContent == <<"h", "i">>
ThreePartContent == Repeat(<<"U4">>, 80)
TenPartContent ==
    <<"a", "a", "a">> \o Repeat(<<"U4">>, 31) \o Repeat(Repeat(<<"U4">>, 17) \o <<" ">>, 9)

(***************************************************************************)
(* Matching engine: check_keywords and the helpers it calls. Texts are     *)
(* sequences of characters; a placeholder such as {sender} is one element. *)
(***************************************************************************)
HelpName == <<"h", "e", "l", "p">>
PingName == <<"p", "i", "n", "g">>
StatsName == <<"s", "t", "a", "t", "s">>

\* The plugins load_all_plugins can register, in the order it loads them
LoadOrder == <<HelpName, PingName, StatsName>>
CommandNames == {LoadOrder[i] : i \in 1..Len(LoadOrder)}

\* str.lower() over the letters the messages and keywords are written with
Lower(text) ==
    [i \in 1..Len(text) |-> CASE text[i] = "H" -> "h" [] text[i] = "I" -> "i"
                               [] text[i] = "P" -> "p" [] OTHER -> text[i]]

\* get_response_format(): None, or the template text of the command
NoTemplate == [present |-> FALSE, text |-> <<>>]
Template(text) == [present |-> TRUE, text |-> text]
Templates == {NoTemplate, Template(<<>>), Template(<<"p", "o", "n", "g", " ", "{sender}">>)}

\* A response of a match: None, or a text
NoResponse == [null |-> TRUE, text |-> <<>>]
Response(text) == [null |-> FALSE, text |-> text]

\* The placeholders format_keyword_response_with_placeholders has a replacement
\* for, and one it has none for
Placeholders == {"{sender}", "{path}", "{snr}", "{rssi}", "{elapsed}", "{timestamp}"}
UnknownPlaceholders == {"{nope}"}

\* utils.format_keyword_response_with_placeholders: every placeholder replaced by
\* its value; the format as it is when it holds an unknown placeholder (KeyError)
FormatKeywordResponse(response_format) ==
    IF \E i \in 1..Len(response_format) : response_format[i] \in UnknownPlaceholders
    THEN response_format
    ELSE [i \in 1..Len(response_format) |->
             IF response_format[i] = "{sender}" THEN "alice"
             ELSE IF response_format[i] \in Placeholders THEN "Unknown"
             ELSE response_format[i]]

\* self.keywords: the configured keywords, in the order of the section, and the
\* response format of each
KeywordHi == <<"H", "i">>
KeywordHiThere == <<"h", "i", " ", "t", "h", "e", "r", "e">>
KeywordPing == <<"P", "i", "n", "g">>
KeywordFormat(keyword) ==
    IF keyword = KeywordHi THEN <<"H", "e", "y", " ", "{sender}">>
    ELSE IF keyword = KeywordHiThere THEN <<"Y", "o", " ", "{nope}">>
    ELSE IF keyword = HelpName THEN <<"B", "o", "t", " ", "h", "e", "l", "p">>
    ELSE <<"P", "o", "n", "g">>
KeywordConfigs ==
    {<<>>, <<KeywordHi>>, <<KeywordHi, KeywordHiThere>>, <<KeywordPing, HelpName>>}

\* cmd.keywords of a registered command
KeywordsOf(command) ==
    IF command.name = HelpName THEN <<HelpName, <<"H", "I">>>> ELSE <<command.name>>

\* 'name' in self.commands and self.commands[name]
Registered(commands, name) == \E i \in 1..Len(commands) : commands[i].name = name
CommandNamed(commands, name) == commands[CHOOSE i \in 1..Len(commands) : commands[i].name = name]

\* check_keywords / execute_commands: content stripped, a leading "!" removed,
\* stripped again and lower-cased
Normalize(content) ==
    LET stripped == Strip(content)
    IN  Lower(IF StartsWith(stripped, <<"!">>) THEN Strip(Drop(stripped, 1)) ELSE stripped)

\* get_general_help
GeneralHelp(keywords) ==
    IF \E i \in 1..Len(keywords) : keywords[i] = HelpName
    THEN KeywordFormat(HelpName)
    ELSE <<"H", "e", "l", "p", " ", "n", "o", "t", " ", "c", "o", "n", "f", "i", "g", "u", "r", "e", "d">>

\* get_help_for_command: general help for a request of the list, the help text
\* of the command named or owning the keyword, or the unknown-command text
GetHelpForCommand(commands, keywords, command_name) ==
    IF command_name \in {<<"c", "o", "m", "m", "a", "n", "d", "s">>, <<"l", "i", "s", "t">>,
                         <<"a", "l", "l">>}
    THEN GeneralHelp(keywords)
    ELSE IF \/ Registered(commands, IF command_name = <<"t">> THEN <<"t", "_", "p", "h", "r", "a", "s", "e">>
                                    ELSE command_name)
            \/ \E i \in 1..Len(commands) : \E k \in 1..Len(KeywordsOf(commands[i])) :
                  KeywordsOf(commands[i])[k] = command_name
    THEN <<"H", "e", "l", "p", " ">> \o command_name \o <<":", " ", "help_text">>
    ELSE <<"U", "n", "k", "n", "o", "w", "n", ":", " ">> \o command_name

\* The help keywords check_keywords tests the message against
HelpKeywords(commands) ==
    IF Registered(commands, HelpName)
    THEN LET keywords == KeywordsOf(CommandNamed(commands, HelpName))
         IN  [k \in 1..Len(keywords) |-> Lower(keywords[k])]
    ELSE <<HelpName>>

\* Mutant of HelpMatches: the suffix after the help keyword is not stripped
HelpMatchesUntrimmed(commands, keywords, content_lower) ==
    LET help_keywords == HelpKeywords(commands)
        asks(k) == StartsWith(content_lower, help_keywords[k] \o <<" ">>)
        hits == {k \in 1..Len(help_keywords) : asks(k) \/ content_lower = help_keywords[k]}
    IN  IF hits = {} THEN <<>>
        ELSE LET help_keyword == help_keywords[Min(hits)]
                 help_text == IF asks(Min(hits))
                              THEN GetHelpForCommand(commands, keywords,
                                                     Drop(content_lower, Len(help_keyword)))
                              ELSE GeneralHelp(keywords)
             IN  <<[trigger |-> HelpName, response |-> Response(FormatKeywordResponse(help_text))]>>

\* check_keywords, help interception: the sole match the first help keyword that
\* the message starts with or equals yields, or <<>> when it is no help request
HelpMatches(commands, keywords, content_lower) ==
    LET help_keywords == HelpKeywords(commands)
        asks(k) == StartsWith(content_lower, help_keywords[k] \o <<" ">>)
        hits == {k \in 1..Len(help_keywords) : asks(k) \/ content_lower = help_keywords[k]}
    IN  IF hits = {} THEN <<>>
        ELSE LET help_keyword == help_keywords[Min(hits)]
                 help_text == IF asks(Min(hits))
                              THEN GetHelpForCommand(commands, keywords,
                                                     Strip(Drop(content_lower, Len(help_keyword))))
                              ELSE GeneralHelp(keywords)
             IN  <<[trigger |-> HelpName, response |-> Response(FormatKeywordResponse(help_text))]>>

\* command.format_response(message, response_format)
FormatResponse(response_format) == FormatKeywordResponse(response_format)

\* if response_format: a template that is neither None nor the empty string
TemplateTruthy(template) == template.present /\ template.text # <<>>

\* check_keywords, command sweep from command i on. can and net are what
\* can_execute(message) and requires_internet give per command, probe what
\* check_internet_connectivity() returns when called; cache is _internet_cache.
RECURSIVE CommandSweep(_, _, _, _, _, _, _, _)
CommandSweep(commands, i, can, net, probe, cache, matches, filtered) ==
    IF i > Len(commands) THEN [matches |-> matches, cache |-> cache, filtered |-> filtered]
    ELSE IF ~(commands[i].matches /\ can[i])
    THEN CommandSweep(commands, i + 1, can, net, probe, cache, matches, filtered)
    ELSE LET checked == IF ~net[i] \/ cache.valid THEN cache
                        ELSE [valid |-> TRUE, has_internet |-> probe]
         IN  IF net[i] /\ ~checked.has_internet
             THEN CommandSweep(commands, i + 1, can, net, probe, checked, matches,
                               Append(filtered, commands[i].name))
             ELSE CommandSweep(commands, i + 1, can, net, probe, checked,
                     Append(matches,
                            [trigger |-> commands[i].name,
                             response |-> IF TemplateTruthy(commands[i].template)
                                          THEN Response(FormatResponse(commands[i].template.text))
                                          ELSE NoResponse]),
                     filtered)

\* Mutant of OwnedByCommand: the keywords are compared as they are written
OwnedByCommandExactCase(commands, keyword) ==
    \E i \in 1..Len(commands) : \E k \in 1..Len(KeywordsOf(commands[i])) :
        KeywordsOf(commands[i])[k] = keyword

\* "Skip if we already have a plugin handling this keyword"
OwnedByCommand(commands, keyword) ==
    \E i \in 1..Len(commands) : \E k \in 1..Len(KeywordsOf(commands[i])) :
        Lower(KeywordsOf(commands[i])[k]) = Lower(keyword)

\* Mutant of KeywordEntries: the prefix test is made after an exact match too
KeywordEntriesBothTests(keyword, content_lower) ==
    LET keyword_lower == Lower(keyword)
        entry == [trigger |-> keyword, response |-> Response(FormatKeywordResponse(KeywordFormat(keyword)))]
    IN  (IF keyword_lower = content_lower THEN <<entry>> ELSE <<>>)
        \o (IF /\ StartsWith(content_lower, keyword_lower)
               /\ \/ Len(content_lower) = Len(keyword_lower)
                  \/ content_lower[Len(keyword_lower) + 1] = " "
            THEN <<entry>> ELSE <<>>)

\* Mutant of KeywordEntries: any content that starts with the keyword matches
KeywordEntriesAnyPrefix(keyword, content_lower) ==
    LET keyword_lower == Lower(keyword)
        entry == [trigger |-> keyword, response |-> Response(FormatKeywordResponse(KeywordFormat(keyword)))]
    IN  IF keyword_lower = content_lower THEN <<entry>>
        ELSE IF StartsWith(content_lower, keyword_lower) THEN <<entry>>
        ELSE <<>>

\* check_keywords, residual keyword sweep: the match of one keyword, if any
KeywordEntries(keyword, content_lower) ==
    LET keyword_lower == Lower(keyword)
        entry == [trigger |-> keyword, response |-> Response(FormatKeywordResponse(KeywordFormat(keyword)))]
    IN  IF keyword_lower = content_lower THEN <<entry>>
        ELSE IF /\ StartsWith(content_lower, keyword_lower)
                /\ \/ Len(content_lower) = Len(keyword_lower)
                   \/ content_lower[Len(keyword_lower) + 1] = " "
        THEN <<entry>>
        ELSE <<>>

RECURSIVE KeywordSweep(_, _, _, _, _)
KeywordSweep(commands, keywords, i, content_lower, matches) ==
    IF i > Len(keywords) THEN matches
    ELSE KeywordSweep(commands, keywords, i + 1, content_lower,
             IF OwnedByCommand(commands, keywords[i]) THEN matches
             ELSE matches \o KeywordEntries(keywords[i], content_lower))

\* CommandManager.check_keywords
CheckKeywords ==
    /\ mt_pc = "idle"
    /\ LET content_lower == Normalize(msg_content)
           help == HelpMatches(cm_commands, cm_keywords, content_lower)
           Matching == {i \in 1..Len(cm_commands) : cm_commands[i].matches}
       IN  IF help # <<>>
           THEN /\ mt_matches' = help
                /\ UNCHANGED <<ic_cache, mt_filtered>>
           ELSE \E swept \in {CommandSweep(cm_commands, 1, can, net, probe, ic_cache, <<>>, <<>>) :
                                  can \in [Matching -> BOOLEAN],
                                  net \in [Matching -> BOOLEAN], probe \in BOOLEAN} :
                   /\ mt_matches' = KeywordSweep(cm_commands, cm_keywords, 1, content_lower,
                                                 swept.matches)
                   /\ ic_cache' = swept.cache
                   /\ mt_filtered' = swept.filtered
    /\ mt_pc' = "returned"
    /\ UNCHANGED <<cm_commands, cm_keywords, msg_content, ex_vars, sp_vars, dl_vars, ch_vars, cd_vars>>

\* time.time() passes _internet_cache.timestamp + _internet_cache_duration
CacheExpires ==
    /\ ic_cache.valid
    /\ ic_cache' = [ic_cache EXCEPT !.valid = FALSE]
    /\ UNCHANGED <<cm_commands, cm_keywords, msg_content, mt_pc, mt_matches, mt_filtered, ex_vars, sp_vars, dl_vars, ch_vars, cd_vars>>

(***************************************************************************)
(* Execution gate and orchestrator: execute_commands for one message.      *)
(***************************************************************************)
\* Mutant of SkipsTemplated: the sweep skips no command
SkipsNoCommand(template) == FALSE

\* execute_commands: "if response_format is not None: continue"
SkipsTemplated(template) == template.present

\* The first command from position from on that should_execute the message and
\* is not skipped for its template; 0 when there is none
FirstExecutable(commands, from) ==
    LET hits == {i \in from..Len(commands) :
                    commands[i].matches /\ ~SkipsTemplated(commands[i].template)}
    IN  IF hits = {} THEN 0 ELSE Min(hits)

\* Mutant of AfterCommand: the sweep goes on with the next command
SweepGoesOn(commands, k) == FirstExecutable(commands, k + 1)

\* The return that ends the handling of command k: no further command is looked at
AfterCommand(commands, k) == 0

\* Mutant of GateResponse: a DM-only command prompts on every channel
GateResponseAlwaysPrompts(requires_dm, is_dm, channel_allowed, requires_admin, has_cooldown, remaining) ==
    IF requires_dm /\ ~is_dm THEN "errors.dm_only"
    ELSE IF requires_admin THEN "errors.access_denied"
    ELSE IF has_cooldown /\ remaining > 0 THEN "errors.cooldown"
    ELSE "silent"

\* What the gate answers a command with that cannot execute now
GateResponse(requires_dm, is_dm, channel_allowed, requires_admin, has_cooldown, remaining) ==
    IF requires_dm /\ ~is_dm
    THEN IF channel_allowed THEN "errors.dm_only" ELSE "silent"
    ELSE IF requires_admin THEN "errors.access_denied"
    ELSE IF has_cooldown /\ remaining > 0 THEN "errors.cooldown"
    ELSE "silent"

\* Why a command cannot execute now, as far as the gate looks into it
GateCause(requires_dm, is_dm, channel_allowed, requires_admin, has_cooldown, remaining) ==
    IF requires_dm /\ ~is_dm
    THEN IF channel_allowed THEN "dm_only_allowed_channel" ELSE "dm_only_other_channel"
    ELSE IF requires_admin THEN "admin"
    ELSE IF has_cooldown /\ remaining > 0 THEN "cooldown"
    ELSE "unknown"

\* send_response(message, error_msg) or a response the command sends itself
Respond(k, kind) ==
    /\ ex_responses' = Append(ex_responses, [command |-> cm_commands[k].name, kind |-> kind])
    /\ cm_last_response' = TRUE

\* Mutant of RecordCommand: a run that sent no response leaves no entry
RecordCommandIfResponded(k, response_sent) ==
    ex_stats' = IF Registered(cm_commands, StatsName) /\ response_sent
                THEN Append(ex_stats, [command |-> cm_commands[k].name, response_sent |-> response_sent])
                ELSE ex_stats

\* stats_command.record_command(message, command_name, response_sent)
RecordCommand(k, response_sent) ==
    ex_stats' = IF Registered(cm_commands, StatsName)
                THEN Append(ex_stats, [command |-> cm_commands[k].name, response_sent |-> response_sent])
                ELSE ex_stats

\* The handling of command k ends
Finish(k) ==
    LET next == AfterCommand(cm_commands, k)
    IN  /\ ex_k' = next
        /\ ex_pc' = IF next = 0 THEN "done" ELSE "sweep"

\* Mutant of RecordBeforeExecute: nothing is recorded before execute()
RecordNothingBeforeExecute(recorded, name, has_record) == recorded

\* "if hasattr(command, '_record_execution') ...: command._record_execution()",
\* the first statement of the try block, before "await command.execute(message)"
RecordBeforeExecute(recorded, name, has_record) ==
    Append(recorded, [command |-> name, called |-> has_record])

\* _record_execution and the call of command.execute(message)
Launch(k) ==
    /\ \E has_record \in BOOLEAN :
          ex_recorded' = RecordBeforeExecute(ex_recorded, cm_commands[k].name, has_record)
    /\ ex_executed' = Append(ex_executed, cm_commands[k].name)
    /\ ex_pc' = "executing"
    /\ UNCHANGED ex_raised

\* execute_commands from the call to the first command the sweep stops at
ExecuteCommands ==
    /\ ex_pc = "idle"
    /\ ex_k' = FirstExecutable(cm_commands, 1)
    /\ ex_pc' = IF ex_k' = 0 THEN "done" ELSE "sweep"
    /\ UNCHANGED <<ex_considered, ex_gate, ex_executed, ex_raised, ex_responses, ex_delivered,
                   ex_stats, ex_recorded,
                   cm_last_response, ic_cache, cm_commands, cm_keywords, msg_content,
                   mt_pc, mt_matches, mt_filtered, sp_vars, dl_vars, ch_vars, cd_vars>>

\* execute_commands at command ex_k: the gate, the cached connectivity check, and
\* the start of the execution
ConsiderCommand ==
    /\ ex_pc = "sweep"
    /\ ex_considered' = Append(ex_considered, cm_commands[ex_k].name)
    /\ \E can_execute_now, requires_internet \in BOOLEAN :
         IF ~can_execute_now
         THEN \E gate \in {[cause |-> GateCause(requires_dm, is_dm, channel_allowed,
                                                   requires_admin, has_cooldown, remaining),
                              kind |-> GateResponse(requires_dm, is_dm, channel_allowed,
                                                    requires_admin, has_cooldown, remaining)] :
                               requires_dm \in BOOLEAN, is_dm \in BOOLEAN, channel_allowed \in BOOLEAN,
                               requires_admin \in BOOLEAN, has_cooldown \in BOOLEAN,
                               remaining \in {0, 5}} :
                 /\ ex_gate' = Append(ex_gate, gate.cause)
                 /\ IF gate.kind = "silent"
                    THEN /\ RecordCommand(ex_k, FALSE)
                         /\ Finish(ex_k)
                         /\ UNCHANGED <<ex_responses, cm_last_response, ex_executed, ex_raised,
                                        ex_recorded>>
                    ELSE /\ Respond(ex_k, gate.kind)
                         /\ ex_pc' = "responding"
                         /\ UNCHANGED <<ex_k, ex_stats, ex_executed, ex_raised, ex_recorded>>
         ELSE IF requires_internet /\ ~ic_cache.valid
         THEN /\ ex_pc' = "probe"
              /\ UNCHANGED <<ex_k, ex_gate, ex_responses, cm_last_response, ex_stats, ex_executed,
                             ex_raised, ex_recorded>>
         ELSE IF requires_internet /\ ~ic_cache.has_internet
         THEN /\ Respond(ex_k, "errors.no_internet")
              /\ ex_gate' = Append(ex_gate, "no_internet")
              /\ ex_pc' = "responding"
              /\ UNCHANGED <<ex_k, ex_stats, ex_executed, ex_raised, ex_recorded>>
         ELSE /\ Launch(ex_k)
              /\ UNCHANGED <<ex_k, ex_gate, ex_responses, cm_last_response, ex_stats>>
    /\ UNCHANGED <<ex_delivered, ic_cache, cm_commands, cm_keywords, msg_content, mt_pc, mt_matches,
                   mt_filtered, sp_vars, dl_vars, ch_vars, cd_vars>>

\* _check_internet_cached_async: check_internet_connectivity_async() returns
ProbeReturns ==
    /\ ex_pc = "probe"
    /\ \E has_internet \in BOOLEAN :
         /\ ic_cache' = [valid |-> TRUE, has_internet |-> has_internet]
         /\ IF has_internet
            THEN /\ Launch(ex_k)
                 /\ UNCHANGED <<ex_gate, ex_responses, cm_last_response>>
            ELSE /\ Respond(ex_k, "errors.no_internet")
                 /\ ex_gate' = Append(ex_gate, "no_internet")
                 /\ ex_pc' = "responding"
                 /\ UNCHANGED <<ex_executed, ex_raised, ex_recorded>>
    /\ UNCHANGED <<ex_k, ex_considered, ex_stats, ex_delivered, cm_commands, cm_keywords, msg_content,
                   mt_pc, mt_matches, mt_filtered, sp_vars, dl_vars, ch_vars, cd_vars>>

\* Mutant of CatchException: the exception leaves execute_commands
ExceptionPropagates(name) == [caught |-> FALSE, kind |-> ""]

\* "except Exception as e": the error message sent for the command
CatchException(name) == [caught |-> TRUE, kind |-> "errors.execution_error"]

\* command.execute(message) returns or raises; the command may have sent a response
ExecuteReturns ==
    /\ ex_pc = "executing"
    /\ \E raises, responded \in BOOLEAN :
         LET name == cm_commands[ex_k].name
             sent == IF responded
                     THEN Append(ex_responses, [command |-> name, kind |-> "command"])
                     ELSE ex_responses
             handler == CatchException(name)
         IN  IF raises
             THEN /\ ex_raised' = Append(ex_raised, name)
                  /\ IF handler.caught
                     THEN /\ ex_responses' = Append(sent, [command |-> name, kind |-> handler.kind])
                          /\ cm_last_response' = TRUE
                          /\ ex_pc' = "responding"
                     ELSE /\ ex_responses' = sent
                          /\ cm_last_response' = (responded \/ cm_last_response)
                          /\ ex_pc' = "propagated"
             ELSE /\ ex_responses' = sent
                  /\ cm_last_response' = (responded \/ cm_last_response)
                  /\ ex_pc' = "settle"
                  /\ UNCHANGED ex_raised
    /\ UNCHANGED <<ex_k, ex_considered, ex_gate, ex_executed, ex_stats, ex_recorded, ex_delivered, ic_cache,
                   cm_commands, cm_keywords, msg_content, mt_pc, mt_matches, mt_filtered, sp_vars, dl_vars, ch_vars, cd_vars>>

\* asyncio.sleep(0.1) is over: response tracking, telemetry, return
SettleOver ==
    /\ ex_pc = "settle"
    /\ \E command_last_response \in BOOLEAN :
          RecordCommand(ex_k, command_last_response \/ cm_last_response)
    /\ Finish(ex_k)
    /\ UNCHANGED <<ex_considered, ex_gate, ex_executed, ex_raised, ex_responses, ex_recorded, cm_last_response,
                   ex_delivered, ic_cache, cm_commands, cm_keywords, msg_content, mt_pc, mt_matches,
                   mt_filtered, sp_vars, dl_vars, ch_vars, cd_vars>>

\* Mutant of RecordedAfterResponse: the flag is what send_response returned
RecordedAsDelivered(delivered) == delivered

\* response_sent as execute_commands passes it to record_command after an
\* awaited send_response of an error message: True, whatever the call returned
RecordedAfterResponse(delivered) == TRUE

\* The awaited send_response of an error message returns, True or False:
\* telemetry, return
ResponseSent ==
    /\ ex_pc = "responding"
    /\ \E delivered \in BOOLEAN :
          /\ ex_delivered' = Append(ex_delivered, delivered)
          /\ RecordCommand(ex_k, RecordedAfterResponse(delivered))
    /\ Finish(ex_k)
    /\ UNCHANGED <<ex_considered, ex_gate, ex_executed, ex_raised, ex_responses, ex_recorded, cm_last_response,
                   ic_cache, cm_commands, cm_keywords, msg_content, mt_pc, mt_matches, mt_filtered,
                   sp_vars, dl_vars, ch_vars, cd_vars>>

(***************************************************************************)
(* Connectivity cache: _check_internet_cached_async called by concurrent   *)
(* tasks, beside the synchronous _check_internet_cached. Time is counted   *)
(* in seconds.                                                             *)
(***************************************************************************)
AsyncCallers == {"a1", "a2"}

\* self._internet_cache_duration
internet_cache_duration == 30

\* The timeout of one connection attempt of the probe, and its attempts
ProbeTimeout == 3
ProbeAttempts == 3
MaxProbeSeconds == ProbeTimeout * ProbeAttempts

\* The seconds one step of the clock takes, the last second of the runs, and the
\* calls of _check_internet_cached_async and probes of _check_internet_cached in a run
TickSeconds == 5
MaxClock == 60
MaxReturns == 3

\* Mutant of IsValid: an entry never expires
IsValidForever(entry, now, cache_duration) == entry.timestamp > 0

\* InternetStatusCache.is_valid
IsValid(entry, now, cache_duration) == now - entry.timestamp < cache_duration

\* Mutant of LockBlocks: the lock is never found taken
LockNeverBlocks(lock) == FALSE

\* "async with self._internet_cache._get_lock()": the caller has to wait
LockBlocks(lock) == lock \notin {"None", "free"}

\* Mutant of StampTime: the entry is stamped with the time the probe returned
StampTimeOfReturn(current_time, now) == now

\* "self._internet_cache.timestamp = current_time"
StampTime(current_time, now) == current_time

\* The caller holds the lock: current_time is read and the entry checked; a
\* valid entry is returned and the lock released, else the probe is awaited
CheckEntry(c) ==
    /\ ch_current_time' = [ch_current_time EXCEPT ![c] = ch_now]
    /\ ch_seen' = [ch_seen EXCEPT ![c] = Len(ch_probes)]
    /\ IF IsValid(ch_entry, ch_now, internet_cache_duration)
       THEN /\ ch_returns' = Append(ch_returns,
                                [caller |-> c, value |-> ch_entry.has_internet, at |-> ch_now,
                                 checked |-> ch_now, seen |-> Len(ch_probes), probed |-> FALSE,
                                 waited |-> ch_pc[c] = "waiting", origin |-> ch_origin])
            /\ ch_pc' = [ch_pc EXCEPT ![c] = "idle"]
            /\ ch_lock' = "free"
            /\ UNCHANGED ch_waited
       ELSE /\ ch_pc' = [ch_pc EXCEPT ![c] = "probing"]
            /\ ch_waited' = [ch_waited EXCEPT ![c] = ch_pc[c] = "waiting"]
            /\ ch_lock' = c
            /\ UNCHANGED ch_returns

\* A task calls _check_internet_cached_async
AsyncCheck(c) ==
    /\ ch_pc[c] = "idle"
    /\ Len(ch_returns) + Cardinality({d \in AsyncCallers : ch_pc[d] # "idle"}) < MaxReturns
    /\ IF LockBlocks(ch_lock)
       THEN /\ ch_pc' = [ch_pc EXCEPT ![c] = "waiting"]
            /\ UNCHANGED <<ch_current_time, ch_seen, ch_returns, ch_lock, ch_waited>>
       ELSE CheckEntry(c)
    /\ UNCHANGED <<ch_now, ch_entry, ch_origin, ch_probes, ch_sync, sp_vars, dl_vars, ds_vars, cd_vars>>

\* The lock is released to a task that waited for it
LockGranted(c) ==
    /\ ch_pc[c] = "waiting"
    /\ ch_lock = "free"
    /\ CheckEntry(c)
    /\ UNCHANGED <<ch_now, ch_entry, ch_origin, ch_probes, ch_sync, sp_vars, dl_vars, ds_vars, cd_vars>>

\* check_internet_connectivity_async() returns: the entry is updated and the
\* value returned
ProbeEnds(c) ==
    /\ ch_pc[c] = "probing"
    /\ \E has_internet \in BOOLEAN :
         /\ ch_entry' = [has_internet |-> has_internet,
                         timestamp |-> StampTime(ch_current_time[c], ch_now)]
         /\ ch_origin' = ch_current_time[c]
         /\ ch_probes' = Append(ch_probes, [by |-> c, began |-> ch_current_time[c],
                                            ended |-> ch_now, value |-> has_internet])
         /\ ch_returns' = Append(ch_returns,
                             [caller |-> c, value |-> has_internet, at |-> ch_now,
                              checked |-> ch_current_time[c], seen |-> ch_seen[c], probed |-> TRUE,
                              waited |-> ch_waited[c], origin |-> ch_current_time[c]])
    /\ ch_pc' = [ch_pc EXCEPT ![c] = "idle"]
    /\ ch_lock' = IF ch_lock = c THEN "free" ELSE ch_lock
    /\ UNCHANGED <<ch_now, ch_current_time, ch_seen, ch_waited, ch_sync, sp_vars, dl_vars, ds_vars, cd_vars>>

\* Mutant of SyncProbes: no probe while a task holds the lock
SyncProbesUnlessLocked(entry, now, lock) ==
    ~IsValid(entry, now, internet_cache_duration) /\ ~LockBlocks(lock)

\* _check_internet_cached: "if self._internet_cache.is_valid(...)" fails and
\* the probe is made; the lock is not looked at
SyncProbes(entry, now, lock) == ~IsValid(entry, now, internet_cache_duration)

\* _check_internet_cached: a valid entry is returned; else, without taking the
\* lock, check_internet_connectivity() probes while every task is blocked, and
\* the entry gets the value and the current_time read before the probe
SyncCheck ==
    /\ LET call == [age |-> ch_now - ch_entry.timestamp, cached |-> ch_entry.has_internet]
       IN  IF ~SyncProbes(ch_entry, ch_now, ch_lock)
           THEN /\ ch_sync' = <<[call |-> call, probe |-> 0, value |-> ch_entry.has_internet]>>
                /\ UNCHANGED <<ch_now, ch_entry, ch_probes, ch_origin>>
           ELSE /\ Len(ch_probes) < MaxReturns
                /\ \E has_internet \in BOOLEAN, took \in {0, TickSeconds} :
                     /\ took <= MaxProbeSeconds
                     /\ ch_now + took <= MaxClock
                     /\ ch_now' = ch_now + took
                     /\ ch_entry' = [has_internet |-> has_internet, timestamp |-> ch_now]
                     /\ ch_probes' = Append(ch_probes, [by |-> "sync", began |-> ch_now,
                                                        ended |-> ch_now + took,
                                                        value |-> has_internet])
                     /\ ch_sync' = <<[call |-> call, probe |-> Len(ch_probes) + 1,
                                     value |-> has_internet]>>
                /\ ch_origin' = ch_now
    /\ UNCHANGED <<ch_pc, ch_lock, ch_current_time, ch_seen, ch_waited, ch_returns,
                   sp_vars, dl_vars, ds_vars, cd_vars>>

\* Time passes; a probe keeps to its timeouts and a task the lock was released
\* to runs before the clock moves on
ClockTick ==
    /\ ch_now + TickSeconds <= MaxClock
    /\ \A c \in AsyncCallers :
          /\ ch_pc[c] = "probing" => ch_now + TickSeconds - ch_current_time[c] <= MaxProbeSeconds
          /\ ~(ch_pc[c] = "waiting" /\ ch_lock = "free")
    /\ ch_now' = ch_now + TickSeconds
    /\ UNCHANGED <<ch_entry, ch_origin, ch_pc, ch_lock, ch_current_time, ch_seen, ch_waited,
                   ch_probes, ch_returns, ch_sync, sp_vars, dl_vars, ds_vars, cd_vars>>

(***************************************************************************)
(* Cooldown gating: execute_commands called again and again, as time       *)
(* passes, with messages that match one self-handling command that has a   *)
(* cooldown. The command keeps its cooldown state itself; the dispatcher   *)
(* asks can_execute_now and get_remaining_cooldown and calls               *)
(* _record_execution. Time is counted in seconds.                          *)
(***************************************************************************)
\* The cooldown of the command, the last second of the runs, and the messages of a run
Cooldown == 3
MaxCooldownClock == 5
MaxRuns == 3

\* The command: its flags, and whether it offers get_remaining_cooldown
CooldownCommands ==
    [name : {PingName}, requires_dm : BOOLEAN, requires_admin : BOOLEAN,
     requires_internet : BOOLEAN, has_accessor : BOOLEAN, cooldown : {Cooldown}]

\* command.get_remaining_cooldown(): the seconds of the cooldown still to pass
\* since the execution last recorded
RemainingCooldown(last_execution, now, cooldown) ==
    IF last_execution = <<>> THEN 0 ELSE Max({0, cooldown - (now - last_execution[1])})

\* command.can_execute_now(message): the message comes where the command may
\* run, from a caller who may run it, and no cooldown remains
CanExecuteNow(command, is_dm, caller_is_admin, remaining) ==
    /\ command.requires_dm => is_dm
    /\ command.requires_admin => caller_is_admin
    /\ remaining = 0

\* Mutant of RecordExecution: the execution time is not recorded
RecordExecutionSkipped(last_execution, now) == last_execution

\* "command._record_execution()" before the command is executed
RecordExecution(last_execution, now) == <<now>>

\* One message handled by execute_commands: the gate, the connectivity check,
\* _record_execution and execute. Whether the caller is an admin is drawn for
\* the commands that ask for it. The gate reads requires_admin_access(), which
\* is called without the message and so tells what the command requires.
CooldownRun ==
    /\ Len(cd_log) < MaxRuns
    /\ \E is_dm, channel_allowed, has_internet \in BOOLEAN,
          caller_is_admin \in (IF cd_command.requires_admin THEN BOOLEAN ELSE {FALSE}) :
         LET remaining == RemainingCooldown(cd_last_execution, cd_now, cd_command.cooldown)
             can_execute_now == CanExecuteNow(cd_command, is_dm, caller_is_admin, remaining)
             kind == GateResponse(cd_command.requires_dm, is_dm, channel_allowed,
                                  cd_command.requires_admin, cd_command.has_accessor, remaining)
             run == [at |-> cd_now, is_dm |-> is_dm, caller_is_admin |-> caller_is_admin,
                     outcome |-> "", seconds |-> 0, executed |-> FALSE]
         IN  IF ~can_execute_now
             THEN /\ cd_log' = Append(cd_log,
                                  [run EXCEPT !.outcome = kind,
                                              !.seconds = IF kind = "errors.cooldown"
                                                          THEN remaining ELSE 0])
                  /\ UNCHANGED cd_last_execution
             ELSE IF cd_command.requires_internet /\ ~has_internet
             THEN /\ cd_log' = Append(cd_log, [run EXCEPT !.outcome = "errors.no_internet"])
                  /\ UNCHANGED cd_last_execution
             ELSE /\ cd_log' = Append(cd_log, [run EXCEPT !.outcome = "executed", !.executed = TRUE])
                  /\ cd_last_execution' = RecordExecution(cd_last_execution, cd_now)
    /\ UNCHANGED <<cd_now, cd_command, sp_vars, dl_vars, ds_vars, ch_vars>>

\* A second passes
CooldownTick ==
    /\ cd_now < MaxCooldownClock
    /\ cd_now' = cd_now + 1
    /\ UNCHANGED <<cd_command, cd_last_execution, cd_log, sp_vars, dl_vars, ds_vars, ch_vars>>

(***************************************************************************)
(* Runs of split_message on its own: the specification SpecSplit draws the *)
(* arguments and applies the function.                                     *)
(***************************************************************************)
\* Longest repetition of a unit in a drawn content, and the largest budget drawn
MaxRepeat == 10
MaxBudget == 12

\* Letters, the break characters of split_message, and code points of each width
SplitAlphabet == {"a", " ", "\n", ".", ",", "U2", "U3", "U4"}

\* An optional leading character
SplitHeads == {<<>>} \cup {<<c>> : c \in SplitAlphabet}

\* The repeated unit: one character, or a character followed by a break character
SplitUnits ==
    {<<c>> : c \in SplitAlphabet} \cup {<<c, d>> : c \in SplitAlphabet, d \in {" ", "\n"}}

\* The contents drawn: a head followed by a repeated unit
SplitContents ==
    {h \o Repeat(u, k) : h \in SplitHeads, u \in SplitUnits, k \in 0..MaxRepeat}

\* The budgets drawn: from the smallest with a positive effective_max
SplitBudgets == (prefix_overhead + 1)..MaxBudget

\* Contents without a break: a run of "A" followed by a run of "B", each of at
\* most MaxRun characters, for budgets up to MaxRunBudget
MaxRun == 10
MaxRunBudget == 16
UnbrokenRuns == {Repeat(<<"A">>, i) \o Repeat(<<"B">>, j) : i, j \in 0..MaxRun}
RunBudgets == (prefix_overhead + 1)..MaxRunBudget

\* split_message("A" * 140 + "B" * 40) with the default budget
LongRun == Repeat(<<"A">>, 140) \o Repeat(<<"B">>, 40)

\* Contents with several kinds of break in the second half of the first chunk:
\* letters, then MaxMarks pairs of characters drawn from the marks split_message
\* looks for, then letters that no longer fit. The budget leaves the first chunk
\* 4 * MaxMarks + 2 characters; the first pair lies at its midpoint or just past it.
MaxMarks == 2
BreakMarks ==
    {<<"a", "a">>, <<"a", "\n">>, <<"a", " ">>, <<".", " ">>, <<"!", " ">>, <<"?", " ">>,
     <<",", " ">>, <<";", " ">>}
BreakTails == {[i \in 1..(2 * MaxMarks) |-> marks[(i + 1) \div 2][((i - 1) % 2) + 1]] :
                  marks \in [1..MaxMarks -> BreakMarks]}
BreakBudget == 4 * MaxMarks + 2 + (prefix_overhead - 1)
BreakContents ==
    {Repeat(<<"a">>, lead) \o tail \o Repeat(<<"a">>, prefix_overhead + 1) :
        lead \in {2 * MaxMarks + 1, 2 * MaxMarks + 2}, tail \in BreakTails}

\* The calls of split_message drawn: content and max_bytes
SplitCalls ==
    (SplitContents \X SplitBudgets) \cup (UnbrokenRuns \X RunBudgets)
        \cup {<<LongRun, MAX_MESSAGE_BYTES>>} \cup (BreakContents \X {BreakBudget})

\* The delivery pipeline before any send call
DeliveryIdle ==
    /\ dl_pc = [t \in Tasks |-> "idle"]
    /\ dl_parts = [t \in Tasks |-> <<>>]
    /\ dl_i = [t \in Tasks |-> 0]
    /\ dl_sleep = [t \in Tasks |-> 0]
    /\ dl_result = [t \in Tasks |-> "pending"]
    /\ dl_log = [t \in Tasks |-> <<>>]
    /\ dl_last = [t \in Tasks |-> NoLast]
    /\ dl_steps = [t \in Tasks |-> <<>>]
    /\ dl_username = <<>>
    /\ rl_records = 0
    /\ tx_records = 0

\* No run of split_message on its own
SplitIdle ==
    /\ sp_pc = "idle"
    /\ sp_content = <<>>
    /\ sp_max_bytes = 0
    /\ sp_parts = <<>>
    /\ sp_cuts = <<>>

\* The matching engine and the orchestrator before a message
DispatchFresh ==
    /\ mt_pc = "idle"
    /\ mt_matches = <<>>
    /\ mt_filtered = <<>>
    /\ ic_cache = [valid |-> FALSE, has_internet |-> TRUE]
    /\ ex_pc = "idle"
    /\ ex_k = 0
    /\ ex_considered = <<>>
    /\ ex_gate = <<>>
    /\ ex_executed = <<>>
    /\ ex_raised = <<>>
    /\ ex_responses = <<>>
    /\ ex_delivered = <<>>
    /\ ex_stats = <<>>
    /\ ex_recorded = <<>>

\* The matching engine and the orchestrator before any message
DispatchQuiet ==
    /\ DispatchFresh
    /\ cm_last_response = FALSE

\* No message to dispatch
DispatchIdle ==
    /\ DispatchQuiet
    /\ cm_commands = <<>>
    /\ cm_keywords = <<>>
    /\ msg_content = <<>>

\* The connectivity cache as __init__ leaves it, at a time later than the epoch
CacheIdle ==
    /\ ch_now = internet_cache_duration
    /\ ch_entry = [has_internet |-> TRUE, timestamp |-> 0]
    /\ ch_origin = 0
    /\ ch_lock = "None"
    /\ ch_pc = [c \in AsyncCallers |-> "idle"]
    /\ ch_current_time = [c \in AsyncCallers |-> 0]
    /\ ch_seen = [c \in AsyncCallers |-> 0]
    /\ ch_waited = [c \in AsyncCallers |-> FALSE]
    /\ ch_probes = <<>>
    /\ ch_returns = <<>>
    /\ ch_sync = <<>>

\* No message has been handled by the command with the cooldown
CooldownIdle ==
    /\ cd_now = 0
    /\ cd_command = [name |-> PingName, requires_dm |-> FALSE, requires_admin |-> FALSE,
                     requires_internet |-> FALSE, has_accessor |-> TRUE, cooldown |-> Cooldown]
    /\ cd_last_execution = <<>>
    /\ cd_log = <<>>

SplitInit ==
    /\ sp_pc = "call"
    /\ \E call \in SplitCalls :
          /\ sp_content = call[1]
          /\ sp_max_bytes = call[2]
    /\ sp_parts = <<>>
    /\ sp_cuts = <<>>
    /\ DeliveryIdle
    /\ dl_content = [t \in Tasks |-> <<>>]
    /\ rl_wait = 0
    /\ DispatchIdle
    /\ CacheIdle
    /\ CooldownIdle

\* parts = self.split_message(content, max_bytes)
SplitCall ==
    /\ sp_pc = "call"
    /\ LET r == SplitMessage(sp_content, sp_max_bytes)
       IN  /\ sp_pc' = r.outcome
           /\ sp_parts' = r.parts
           /\ sp_cuts' = r.cuts
    /\ UNCHANGED <<sp_content, sp_max_bytes, dl_vars, ds_vars, ch_vars, cd_vars>>

SplitNext == SplitCall

SpecSplit == SplitInit /\ [][SplitNext]_vars

(***************************************************************************)
(* Runs of the delivery pipeline. SpecSend: both calls send a message of   *)
(* one or three parts. SpecSendLong: send_channel_message sends the        *)
(* message of ten parts beside a short direct message.                     *)
(***************************************************************************)
SendInit ==
    /\ DeliveryIdle
    /\ SplitIdle
    /\ DispatchIdle
    /\ CacheIdle
    /\ CooldownIdle
    /\ dl_content \in [Tasks -> {OnePartContent, ThreePartContent}]
    /\ rl_wait \in 0..RateLimitSeconds

SendLongInit ==
    /\ DeliveryIdle
    /\ SplitIdle
    /\ DispatchIdle
    /\ CacheIdle
    /\ CooldownIdle
    /\ dl_content = [t \in Tasks |-> IF t = "chan" THEN TenPartContent ELSE OnePartContent]
    /\ rl_wait \in 0..RateLimitSeconds

SendNext ==
    \/ \E t \in Tasks : SendStart(t)
    \/ \E t \in Tasks : TxAdmitted(t)
    \/ \E t \in Tasks : Transmit(t)
    \/ \E t \in Tasks : SendResult(t)
    \/ \E t \in Tasks : PauseOver(t)
    \/ Tick

SpecSend == SendInit /\ [][SendNext]_vars

SpecSendLong == SendLongInit /\ [][SendNext]_vars

\* The steps of one call, which the event loop takes once they are ready
SendSteps(t) == SendStart(t) \/ TxAdmitted(t) \/ Transmit(t) \/ SendResult(t) \/ PauseOver(t)

\* SpecSendFair: the runs of SpecSend in which the event loop resumes every task
\* that is ready and time goes on while a timer or the limiter's wait is running
SpecSendFair == SpecSend /\ WF_vars(Tick) /\ \A t \in Tasks : WF_vars(SendSteps(t))

(***************************************************************************)
(* Runs of the matching engine and the orchestrator on one message:        *)
(* SpecDispatch draws the registry, the keywords and the message.          *)
(***************************************************************************)
MaxCommands == 2

\* The registries: at most MaxCommands plugins in load order, each with what
\* should_execute(message) gives for the message and, when it matches, any of the
\* response formats. No message drawn addresses the stats command.
Registries ==
    LET orders == {q \in UNION {[1..k -> 1..Len(LoadOrder)] : k \in 0..MaxCommands} :
                      \A i \in 1..(Len(q) - 1) : q[i] < q[i + 1]}
        descriptors == {d \in [template : Templates, matches : BOOLEAN] :
                           ~d.matches => d.template = NoTemplate}
        drawn == {[i \in 1..Len(q) |-> [name |-> LoadOrder[q[i]], template |-> ds[i].template,
                                         matches |-> ds[i].matches]] :
                     q \in orders, ds \in [1..MaxCommands -> descriptors]}
    IN  {r \in drawn : \A i \in 1..Len(r) : r[i].name = StatsName => ~r[i].matches}

DispatchContents ==
    {<<"h", "e", "l", "p">>,
     <<"h", "e", "l", "p", " ", "p", "i", "n", "g">>,
     <<"!", " ", "h", "e", "l", "p">>,
     <<"h", "e", "l", "p", "f", "u", "l">>,
     <<"!", "p", "i", "n", "g">>,
     <<" ", "H", "I", " ">>,
     <<"h", "i", " ", "t", "h", "e", "r", "e">>,
     <<"h", "i", "t">>}

DispatchInit ==
    /\ DispatchQuiet
    /\ cm_commands \in Registries
    /\ cm_keywords \in KeywordConfigs
    /\ msg_content \in DispatchContents
    /\ CacheIdle
    /\ CooldownIdle
    /\ SplitIdle
    /\ DeliveryIdle
    /\ dl_content = [t \in Tasks |-> <<>>]
    /\ rl_wait = 0

DispatchNext ==
    \/ CheckKeywords
    \/ CacheExpires
    \/ ExecuteCommands
    \/ ConsiderCommand
    \/ ProbeReturns
    \/ ExecuteReturns
    \/ SettleOver
    \/ ResponseSent

SpecDispatch == DispatchInit /\ [][DispatchNext]_vars

\* A message that arrives after send_response has answered an earlier one:
\* self._last_response holds that answer
LaterMessageInit ==
    /\ DispatchFresh
    /\ cm_last_response = TRUE
    /\ cm_commands \in Registries
    /\ cm_keywords \in KeywordConfigs
    /\ msg_content \in DispatchContents
    /\ CacheIdle
    /\ CooldownIdle
    /\ SplitIdle
    /\ DeliveryIdle
    /\ dl_content = [t \in Tasks |-> <<>>]
    /\ rl_wait = 0

SpecLaterMessage == LaterMessageInit /\ [][DispatchNext]_vars

(***************************************************************************)
(* Runs of the connectivity cache: two tasks call the asynchronous check   *)
(* again and again while the synchronous check is called beside them.      *)
(***************************************************************************)
CacheInit ==
    /\ CacheIdle
    /\ CooldownIdle
    /\ SplitIdle
    /\ DeliveryIdle
    /\ dl_content = [t \in Tasks |-> <<>>]
    /\ rl_wait = 0
    /\ DispatchIdle

CacheNext ==
    \/ \E c \in AsyncCallers : AsyncCheck(c)
    \/ \E c \in AsyncCallers : LockGranted(c)
    \/ \E c \in AsyncCallers : ProbeEnds(c)
    \/ SyncCheck
    \/ ClockTick

SpecCache == CacheInit /\ [][CacheNext]_vars

(***************************************************************************)
(* Runs of the cooldown gate: messages for one command with a cooldown     *)
(* arrive as time passes.                                                  *)
(***************************************************************************)
CooldownInit ==
    /\ cd_now = 0
    /\ cd_command \in CooldownCommands
    /\ cd_last_execution = <<>>
    /\ cd_log = <<>>
    /\ CacheIdle
    /\ SplitIdle
    /\ DeliveryIdle
    /\ dl_content = [t \in Tasks |-> <<>>]
    /\ rl_wait = 0
    /\ DispatchIdle

CooldownNext ==
    \/ CooldownRun
    \/ CooldownTick

SpecCooldown == CooldownInit /\ [][CooldownNext]_vars

(***************************************************************************)
(* Claims about the splitter, checked under SpecSplit.                     *)
(***************************************************************************)
\* The largest encoded width of a character
MaxCharBytes == 4

\* split_message returned a list that went through the splitting path
SplitReturnedParts == sp_pc = "returned" /\ ByteLen(sp_content) > sp_max_bytes

\* max_bytes holds the prefix of the last part of the result plus any one character
BudgetHoldsPrefixAndChar ==
    sp_max_bytes >= ByteLen(PartPrefix(Len(sp_parts), Len(sp_parts))) + MaxCharBytes

\* C1: for a max_bytes that holds a part prefix plus one character, every part
\* split_message returns, prefix included, is at most max_bytes bytes long, also
\* after the renumbering pass.
C1_EveryPartWithinBudget ==
    (sp_pc = "returned" /\ BudgetHoldsPrefixAndChar)
        => \A i \in 1..Len(sp_parts) : ByteLen(sp_parts[i]) <= sp_max_bytes

\* C2: in a result of n prefixed parts, the part at position i starts with "[i/n] ",
\* whether or not the estimate of the part count was n.
C2_PrefixesNumberParts ==
    SplitReturnedParts
        => \A i \in 1..Len(sp_parts) :
              StartsWith(sp_parts[i], PartPrefix(i, Len(sp_parts)))

\* C2's case: several parts were returned and the estimate was not their number.
C2_Witness ==
    /\ SplitReturnedParts
    /\ Len(sp_parts) > 1
    /\ Len(sp_parts) # EstimatedParts(sp_content, sp_max_bytes)

\* The body of the part at position i of a prefixed result of n parts
PartBody(parts, i) == Drop(parts[i], Len(PartPrefix(i, Len(parts))))

\* text is the bodies in their order, each followed by a run of whitespace
RECURSIVE Reassembles(_, _)
Reassembles(text, bodies) ==
    IF bodies = <<>> THEN text = <<>>
    ELSE /\ StartsWith(text, Head(bodies))
         /\ \E gap \in 0..(Len(text) - Len(Head(bodies))) :
               /\ \A j \in 1..gap : IsSpace(text[Len(Head(bodies)) + j])
               /\ Reassembles(Drop(text, Len(Head(bodies)) + gap), Tail(bodies))

\* C3: the bodies of the returned parts, in order, are the content with nothing
\* lost, duplicated or reordered except whitespace removed where it was cut.
C3_BodiesReassembleContent ==
    SplitReturnedParts
        => Reassembles(sp_content, [i \in 1..Len(sp_parts) |-> PartBody(sp_parts, i)])

\* The number of characters of the bodies of parts[1..k]
RECURSIVE BodiesLen(_, _)
BodiesLen(parts, k) == IF k = 0 THEN 0 ELSE Len(PartBody(parts, k)) + BodiesLen(parts, k - 1)

\* C3's case: three parts or more, cut inside a run of multi-byte characters and at
\* whitespace that the cut removed.
C3_Witness ==
    /\ SplitReturnedParts
    /\ Len(sp_parts) > 2
    /\ \E i \in 1..Len(sp_parts) :
          PartBody(sp_parts, i) # <<>> /\ Utf8Len(PartBody(sp_parts, i)[1]) > 1
    /\ BodiesLen(sp_parts, Len(sp_parts)) < Len(sp_content)

(***************************************************************************)
(* Properties of the delivery pipeline                                     *)
(***************************************************************************)
\* The parts of call t whose send was classified as success
SentParts(t) ==
    {dl_log[t][j].part : j \in {x \in 1..Len(dl_log[t]) :
                                   dl_log[t][x].ev = "result" /\ dl_log[t][x].ok}}

\* The positions of dl_log[t] at which a part was handed to the transport
Hands(t) == {j \in 1..Len(dl_log[t]) : dl_log[t][j].ev = "hand"}

\* Once a part's send was classified as success, neither it nor an earlier part
\* is handed to the transport again
NothingResent(t) ==
    \A j \in 1..Len(dl_log[t]), h \in Hands(t) :
        (dl_log[t][j].ev = "result" /\ dl_log[t][j].ok /\ j < h)
            => dl_log[t][h].part > dl_log[t][j].part

\* C4: when the send of part k of a message fails, the call returns False with
\* exactly the parts 1..k-1 sent, no part after k handed to the transport at any
\* time and no sent part handed over again; the call returns True only with every
\* part's send classified as success.
C4_FailureAbortsRemainingParts ==
    \A t \in Tasks :
        /\ (dl_result[t] = "False" /\ dl_parts[t] # <<>>)
              => /\ SentParts(t) = 1..dl_i[t]
                 /\ \A h \in Hands(t) : dl_log[t][h].part <= dl_i[t] + 1
                 /\ NothingResent(t)
        /\ dl_result[t] = "True" => SentParts(t) = 1..Len(dl_parts[t])

\* Part 2 of a three-part message ends with an error event, part 1 was sent
C4_Witness ==
    \E t \in Tasks :
        /\ dl_result[t] = "False"
        /\ Len(dl_parts[t]) = 3
        /\ dl_i[t] = 1
        /\ dl_last[t].set /\ dl_last[t].result.type = "ERROR"
        /\ SentParts(t) = {1}

\* C5: the parts of one message are handed to the transport in strictly
\* increasing index, each at most once, and part i+1 only after the result of
\* part i was received and classified, in every interleaving of the two calls.
C5_PartsHandedOnceInOrder ==
    \A t \in Tasks :
        /\ \A g, h \in Hands(t) : g < h => dl_log[t][g].part < dl_log[t][h].part
        /\ \A h \in Hands(t) :
              dl_log[t][h].part > 1
                 => \E j \in 1..(h - 1) : /\ dl_log[t][j].ev = "result"
                                          /\ dl_log[t][j].part = dl_log[t][h].part - 1

\* The ordering C5 asks for, without "at most once": indexes never decrease and
\* part i+1 is handed over only after the success of part i was classified
PartsHandedInOrder ==
    \A t \in Tasks :
        /\ \A g, h \in Hands(t) : g < h => dl_log[t][g].part <= dl_log[t][h].part
        /\ \A h \in Hands(t) :
              dl_log[t][h].part > 1
                 => \E j \in 1..(h - 1) : /\ dl_log[t][j].ev = "result"
                                          /\ dl_log[t][j].ok
                                          /\ dl_log[t][j].part = dl_log[t][h].part - 1

\* The bytes the payload of part p of call t takes on the wire beside the
\* sender-name prefix the transport prepends to channel messages
WithinCeiling(t, p) ==
    IF t = "dm" THEN ByteLen(dl_parts[t][p]) <= MAX_MESSAGE_BYTES
    ELSE IF dl_username # <<>>
    THEN ByteLen(dl_username) + 2 + ByteLen(dl_parts[t][p]) <= MAX_MESSAGE_BYTES
    ELSE ByteLen(dl_parts[t][p]) <= MAX_MESSAGE_BYTES - UsernameFallbackBytes

\* C6: every payload handed to the transport respects the 150-byte ceiling: a
\* direct-message part has at most 150 bytes; a channel part has at most 150
\* bytes together with the display name and ": ", or at most 133 bytes when the
\* display name is unknown.
C6_PayloadsRespectCeiling ==
    \A t \in Tasks : \A h \in Hands(t) : WithinCeiling(t, dl_log[t][h].part)

\* C7 as stated: success exactly for a sent/ok event or, for channel sends, an event
\* whose payload reason is no_event_received; failure for every other result.
C7_SuccessOnlyForSentOrUnconfirmed ==
    \A t \in Tasks :
        dl_last[t].set =>
            (dl_last[t].ok <=>
                /\ dl_last[t].result.has_type
                /\ \/ dl_last[t].result.type \in {"MSG_SENT", "OK"}
                   \/ /\ t = "chan"
                      /\ dl_last[t].result.type # "ERROR"
                      /\ dl_last[t].result.reason = "no_event_received")

\* C7 (amended): _handle_send_result reports success exactly when the result is a
\* sent/ok event, or a channel send's non-error event whose payload reason is
\* no_event_received, or a non-null result without a type attribute; every
\* success is recorded against both limiters.
C7_SuccessAlsoForUntypedResult ==
    /\ \A t \in Tasks :
        dl_last[t].set =>
            (dl_last[t].ok <=>
                /\ dl_last[t].result.truthy
                /\ \/ ~dl_last[t].result.has_type
                   \/ dl_last[t].result.type \in {"MSG_SENT", "OK"}
                   \/ /\ t = "chan"
                      /\ dl_last[t].result.type # "ERROR"
                      /\ dl_last[t].result.reason = "no_event_received")
    /\ rl_records = Cardinality(SentParts("dm")) + Cardinality(SentParts("chan"))
    /\ tx_records = rl_records

\* A direct message classified as sent on a result without a type attribute, beside
\* a channel message classified as sent on an unconfirmed send
C7_Witness ==
    /\ dl_last["dm"].set /\ dl_last["dm"].result = Untyped /\ dl_last["dm"].ok
    /\ dl_last["chan"].set /\ dl_last["chan"].result = Event("OTHER", "no_event_received")
    /\ dl_last["chan"].ok

(***************************************************************************)
(* Properties of the matching engine and the orchestrator                  *)
(***************************************************************************)
\* The commands that should_execute the message and have no response format
SelfHandling == {i \in 1..Len(cm_commands) :
                    cm_commands[i].matches /\ ~cm_commands[i].template.present}

\* C8: execute_commands calls execute() on at most one command: it takes only
\* the first matching command without a response format to the gate, returns
\* after it whether it was executed, rejected by the gate or refused for lack of
\* connectivity, and executes no later matching command.
C8_AtMostOneCommandExecuted ==
    /\ Len(ex_executed) <= 1
    /\ Len(ex_considered) <= 1
    /\ \A j \in 1..Len(ex_considered) :
          SelfHandling # {} /\ ex_considered[j] = cm_commands[Min(SelfHandling)].name
    /\ \A j \in 1..Len(ex_executed) : ex_executed[j] = ex_considered[1]
    /\ (ex_pc = "done" /\ SelfHandling # {}) => Len(ex_considered) = 1

\* execute_commands returned with the first of two matching self-handling
\* commands executed
C8_Witness ==
    /\ ex_pc = "done"
    /\ Cardinality(SelfHandling) > 1
    /\ ex_executed = <<cm_commands[Min(SelfHandling)].name>>

\* The match list holds a text for command i
AnsweredByTemplate(i) ==
    \E m \in 1..Len(mt_matches) :
        /\ mt_matches[m].trigger = cm_commands[i].name
        /\ ~mt_matches[m].response.null

\* C9: a command whose response format is present is never executed by
\* execute_commands, and no command is both answered with its formatted template
\* by check_keywords and executed by execute_commands for the same message.
C9_TemplatedNeverExecuted ==
    \A i \in 1..Len(cm_commands) :
        (\E j \in 1..Len(ex_executed) : ex_executed[j] = cm_commands[i].name)
            => /\ ~cm_commands[i].template.present
               /\ HelpMatches(cm_commands, cm_keywords, Normalize(msg_content)) = <<>>
                     => ~AnsweredByTemplate(i)

\* check_keywords answered a templated command that precedes the command
\* execute_commands executed, and marked the executed one with None
C9_Witness ==
    /\ mt_pc = "returned"
    /\ \E i, k \in 1..Len(cm_commands) :
          /\ i < k
          /\ TemplateTruthy(cm_commands[i].template) /\ cm_commands[i].matches
          /\ AnsweredByTemplate(i)
          /\ ex_executed = <<cm_commands[k].name>>
          /\ \E m \in 1..Len(mt_matches) :
                mt_matches[m].trigger = cm_commands[k].name /\ mt_matches[m].response.null

\* The entries of the match list that carry a response text
TextEntries == {m \in 1..Len(mt_matches) : ~mt_matches[m].response.null}

\* C10 as stated: the match list returned by check_keywords holds at most one
\* entry with a non-null response text.
C10_AtMostOneTextEntry == Cardinality(TextEntries) <= 1

\* C10 (amended): a help request returns the help text as the sole entry of the
\* match list; otherwise the list holds at most one entry per matching command
\* and per configured keyword, an entry of a command carries a text exactly when
\* its response format is non-empty and an entry of a keyword always does, so
\* several entries can carry a text.
C10_OneEntryPerTrigger ==
    mt_pc = "returned" =>
        /\ HelpMatches(cm_commands, cm_keywords, Normalize(msg_content)) # <<>>
              => /\ Len(mt_matches) = 1
                 /\ mt_matches[1].trigger = HelpName
                 /\ ~mt_matches[1].response.null
        /\ \A m, n \in 1..Len(mt_matches) :
              mt_matches[m].trigger = mt_matches[n].trigger => m = n
        /\ \A m \in 1..Len(mt_matches) :
              HelpMatches(cm_commands, cm_keywords, Normalize(msg_content)) = <<>> =>
                 IF Registered(cm_commands, mt_matches[m].trigger)
                 THEN LET command == CommandNamed(cm_commands, mt_matches[m].trigger)
                      IN  /\ command.matches
                          /\ mt_matches[m].response.null <=> ~TemplateTruthy(command.template)
                 ELSE /\ \E k \in 1..Len(cm_keywords) : cm_keywords[k] = mt_matches[m].trigger
                      /\ ~mt_matches[m].response.null

\* A message that is no help request gets a text from two keywords, one of them
\* by an exact match
C10_Witness ==
    /\ mt_pc = "returned"
    /\ HelpMatches(cm_commands, cm_keywords, Normalize(msg_content)) = <<>>
    /\ Cardinality(TextEntries) > 1
    /\ \E m \in TextEntries : Lower(mt_matches[m].trigger) = Normalize(msg_content)

\* The help keywords the normalized message equals, and those it starts with
\* followed by a space
HelpKeywordsEqualled ==
    {k \in 1..Len(HelpKeywords(cm_commands)) :
        Normalize(msg_content) = HelpKeywords(cm_commands)[k]}
HelpKeywordsAsked ==
    {k \in 1..Len(HelpKeywords(cm_commands)) :
        StartsWith(Normalize(msg_content), HelpKeywords(cm_commands)[k] \o <<" ">>)}

\* C11: when the normalized content equals a help keyword, check_keywords
\* returns the single match ('help', general help text); when it starts with a
\* help keyword followed by a space, the single match ('help', help for the
\* trimmed suffix); no command and no residual keyword is added in either case.
C11_HelpIsTheSoleMatch ==
    mt_pc = "returned" =>
        /\ HelpKeywordsEqualled # {} =>
              mt_matches = <<[trigger |-> HelpName,
                              response |-> Response(FormatKeywordResponse(GeneralHelp(cm_keywords)))]>>
        /\ \A k \in HelpKeywordsAsked :
              mt_matches =
                 <<[trigger |-> HelpName,
                    response |-> Response(FormatKeywordResponse(
                        GetHelpForCommand(cm_commands, cm_keywords,
                            Strip(Drop(Normalize(msg_content), Len(HelpKeywords(cm_commands)[k]))))))]>>

\* "help ping" with the ping command registered and matching: the list holds the
\* help for ping and not the command
C11_Witness ==
    /\ mt_pc = "returned"
    /\ HelpKeywordsAsked # {}
    /\ \E i \in 1..Len(cm_commands) :
          /\ cm_commands[i].name = PingName /\ cm_commands[i].matches
          /\ Strip(Drop(Normalize(msg_content), Len(HelpName))) = PingName
    /\ Len(mt_matches) = 1

\* The configured keywords some registered command has in its keyword set,
\* whatever the case
OwnedKeywords ==
    {k \in 1..Len(cm_keywords) :
        \E i \in 1..Len(cm_commands) : \E j \in 1..Len(KeywordsOf(cm_commands[i])) :
            Lower(KeywordsOf(cm_commands[i])[j]) = Lower(cm_keywords[k])}

\* The match list holds the static response of configured keyword k
StaticResponseOf(k) ==
    \E m \in 1..Len(mt_matches) :
        /\ mt_matches[m].trigger = cm_keywords[k]
        /\ mt_matches[m].response = Response(FormatKeywordResponse(KeywordFormat(cm_keywords[k])))

\* C12: a configured keyword that a registered command has in its keyword set
\* (compared case-insensitively) never yields a residual match, so a message the
\* owning command answers never gets the static keyword response too. (A help
\* request is answered by the help interception, which reads the general help
\* from the keyword "help" and never reaches the residual sweep.)
C12_OwnedKeywordNeverMatches ==
    (HelpKeywordsEqualled = {} /\ HelpKeywordsAsked = {})
        => \A k \in OwnedKeywords : ~StaticResponseOf(k)

\* "!ping" with the keyword "Ping" configured and the ping command registered and
\* matching: the list holds the entry of the command only
C12_Witness ==
    /\ mt_pc = "returned"
    /\ Normalize(msg_content) = PingName
    /\ \E k \in OwnedKeywords : cm_keywords[k] = KeywordPing
    /\ \E m \in 1..Len(mt_matches) : mt_matches[m].trigger = PingName

\* The execution-error responses sent for a command
ErrorResponses(name) ==
    {r \in 1..Len(ex_responses) :
        ex_responses[r] = [command |-> name, kind |-> "errors.execution_error"]}

\* C13: an exception raised by execute() does not leave execute_commands: it is
\* caught, exactly one execution-error response naming the command is sent,
\* telemetry is recorded once with response-sent = true, and execute_commands
\* returns normally.
C13_ExecutionErrorIsCaught ==
    /\ ex_pc # "propagated"
    /\ \A j \in 1..Len(ex_raised) :
          /\ ex_pc \in {"responding", "done"}
          /\ Cardinality(ErrorResponses(ex_raised[j])) = 1
          /\ (ex_pc = "done" /\ Registered(cm_commands, StatsName))
                => ex_stats = <<[command |-> ex_raised[j], response_sent |-> TRUE]>>
    /\ ex_raised = <<>> =>
          \A r \in 1..Len(ex_responses) : ex_responses[r].kind # "errors.execution_error"

\* execute() of a command raised after the command had sent a response of its
\* own; execute_commands returned with the error response sent and recorded
C13_Witness ==
    /\ ex_pc = "done"
    /\ Len(ex_raised) = 1
    /\ Len(ex_responses) = 2
    /\ ex_stats = <<[command |-> ex_raised[1], response_sent |-> TRUE]>>

\* The probes _check_internet_cached_async made
AsyncProbes == {i \in 1..Len(ch_probes) : ch_probes[i].by \in AsyncCallers}

\* C14: once a probe has refreshed the cache, a call of
\* _check_internet_cached_async that checks the entry less than 30 seconds
\* after the time that refresh is stamped with returns the value of the refresh
\* without probing, and a call that checks it later makes one probe of its own
C14_CachedWithinTtlProbedAfter ==
    /\ \A j \in 1..Len(ch_returns) :
          LET r == ch_returns[j] IN
          r.seen > 0 =>
             LET refresh == ch_probes[r.seen] IN
             IF r.checked - refresh.began < internet_cache_duration
             THEN ~r.probed /\ r.value = refresh.value
             ELSE r.probed
    /\ Cardinality(AsyncProbes) = Cardinality({j \in 1..Len(ch_returns) : ch_returns[j].probed})

\* Two calls answered from the one refresh, and a later call that probed again
C14_Witness ==
    /\ Len(ch_returns) = 3
    /\ ch_returns[1].probed
    /\ ~ch_returns[2].probed /\ ch_returns[2].seen = 1
    /\ ch_returns[3].probed /\ ch_returns[3].seen = 1
    /\ Len(ch_probes) = 2

\* C15: of the calls of _check_internet_cached_async that overlap on an expired
\* entry one alone probes: no two tasks probe at a time, and a task that had to
\* wait for the lock finds the entry valid and returns it without probing
C15_OneProbeForOverlappingCalls ==
    /\ Cardinality({c \in AsyncCallers : ch_pc[c] = "probing"}) <= 1
    /\ \A c \in AsyncCallers : ch_pc[c] = "probing" => ch_lock = c
    /\ \A c \in AsyncCallers : ch_pc[c] = "probing" => ~ch_waited[c]
    /\ \A j \in 1..Len(ch_returns) : ch_returns[j].waited => ~ch_returns[j].probed

\* A task waited for the lock while the other probed, and returned the entry
C15_Witness ==
    \E j \in 1..Len(ch_returns) :
       /\ ch_returns[j].waited
       /\ ~ch_returns[j].probed
       /\ j > 1 /\ ch_returns[j - 1].probed /\ ch_returns[j - 1].caller # ch_returns[j].caller
       /\ ch_returns[j].checked >= ch_returns[j - 1].at

\* C16: a value _check_internet_cached_async returns comes from a probe that
\* began less than 30 seconds before the return, whatever _check_internet_cached
\* did in between
C16_ReturnedValueYoungerThanTtl ==
    \A j \in 1..Len(ch_returns) :
       ch_returns[j].at - ch_returns[j].origin < internet_cache_duration

\* A cached value was returned that _check_internet_cached had put there while
\* a task was probing
C16_Witness ==
    \E j \in 1..Len(ch_returns) :
       /\ ~ch_returns[j].probed
       /\ ch_returns[j].seen > 0
       /\ ch_probes[ch_returns[j].seen].by = "sync"
       /\ ch_returns[j].at > ch_returns[j].origin


\* The time of the last execution before run j of the cooldown runs, in a
\* sequence that is empty when there was none
LastExecutedBefore(j) ==
    LET times == {cd_log[i].at : i \in {h \in 1..(j - 1) : cd_log[h].executed}}
    IN  IF times = {} THEN <<>> ELSE <<Max(times)>>

\* The message of run j meets no DM-only or admin rule of the command
CooldownAloneDecides(j) ==
    /\ cd_command.requires_dm => cd_log[j].is_dm
    /\ ~cd_command.requires_admin
    /\ cd_command.has_accessor

C18_OneTelemetryEntryPerRun ==
    Registered(cm_commands, StatsName) =>
       /\ Len(ex_stats) <= 1
       /\ ex_considered = <<>> => ex_stats = <<>>
       /\ (ex_pc = "done" /\ ex_considered # <<>>) =>
             /\ Len(ex_stats) = 1
             /\ ex_stats[1].command = ex_considered[1]
             /\ ex_gate # <<>> =>
                   (ex_stats[1].response_sent <=>
                       ex_gate[1] \notin {"dm_only_other_channel", "unknown"})
             /\ ex_raised # <<>> => ex_stats[1].response_sent

\* A run the gate ended silently has left its one entry
C18_Witness ==
    /\ ex_pc = "done"
    /\ ex_gate = <<"dm_only_other_channel">>
    /\ ex_stats = <<[command |-> ex_considered[1], response_sent |-> FALSE]>>

\* The error message each rejection that shows sends
RejectionMessage(cause) ==
    CASE cause = "dm_only_allowed_channel" -> "errors.dm_only"
      [] cause = "admin" -> "errors.access_denied"
      [] cause = "cooldown" -> "errors.cooldown"
      [] cause = "no_internet" -> "errors.no_internet"
      [] OTHER -> "silent"

\* C19: a DM-only command on an allowed channel, a denied access, a remaining
\* cooldown, a failed connectivity check and an execution error each send one
\* error response for the message; a DM-only command on a channel that is not
\* allowed sends none, and a command check_keywords skips for the failed
\* connectivity check gets no entry and no response
C19_OneResponsePerVisibleRejection ==
    /\ Len(ex_gate) <= 1
    /\ \A g \in 1..Len(ex_gate) :
          IF RejectionMessage(ex_gate[g]) = "silent"
          THEN ex_responses = <<>>
          ELSE ex_responses = <<[command |-> ex_considered[1], kind |-> RejectionMessage(ex_gate[g])]>>
    /\ ex_raised # <<>> =>
          /\ Cardinality({r \in 1..Len(ex_responses) : ex_responses[r].kind # "command"}) = 1
          /\ ex_responses[Len(ex_responses)] =
                [command |-> ex_raised[1], kind |-> "errors.execution_error"]
    /\ (ex_gate = <<>> /\ ex_raised = <<>>) =>
          \A r \in 1..Len(ex_responses) : ex_responses[r].kind = "command"
    /\ \A f \in 1..Len(mt_filtered) :
          /\ \A m \in 1..Len(mt_matches) : mt_matches[m].trigger # mt_filtered[f]
          /\ ex_pc = "idle" => ex_responses = <<>>

\* check_keywords skipped a command without a word, and the gate then prompted
\* once for a DM-only command on an allowed channel
C19_Witness ==
    /\ mt_filtered # <<>>
    /\ ex_pc = "done"
    /\ ex_gate = <<"dm_only_allowed_channel">>
    /\ Len(ex_responses) = 1


\* C20: for a content whose UTF-8 length is at most max_bytes, split_message
\* returns the list of that one content, as it was given and without a prefix
C20_FittingContentReturnedAsIs ==
    (sp_pc \notin {"idle", "call"} /\ ByteLen(sp_content) <= sp_max_bytes) =>
       /\ sp_pc = "returned"
       /\ sp_parts = <<sp_content>>

\* A content of exactly max_bytes bytes, with a leading space and characters of
\* several bytes, came back as it was
C20_Witness ==
    /\ sp_pc = "returned"
    /\ ByteLen(sp_content) = sp_max_bytes
    /\ Len(sp_content) < ByteLen(sp_content)
    /\ sp_content[1] = " "
    /\ sp_parts = <<sp_content>>


\* The content is ASCII and holds no newline, space or punctuation mark
Unbroken(content) ==
    \A i \in 1..Len(content) :
       Utf8Len(content[i]) = 1 /\ content[i] \notin {"\n", " ", "\t", "\r", ".", ",", "!", "?", ";"}

\* C21: for ASCII content without a newline, space or punctuation break whose
\* length L lies above max_bytes and is at most 2 * (max_bytes - 6),
\* split_message returns two parts, prefixed "[1/2] " and "[2/2] ", each of at
\* most max_bytes bytes
C21_UnbrokenContentGivesTwoParts ==
    (/\ sp_pc # "call"
     /\ Unbroken(sp_content)
     /\ sp_max_bytes < Len(sp_content)
     /\ Len(sp_content) <= 2 * (sp_max_bytes - 6)) =>
       /\ sp_pc = "returned"
       /\ Len(sp_parts) = 2
       /\ StartsWith(sp_parts[1], <<"[", "1", "/", "2", "]", " ">>)
       /\ StartsWith(sp_parts[2], <<"[", "2", "/", "2", "]", " ">>)
       /\ \A i \in 1..2 : ByteLen(sp_parts[i]) <= sp_max_bytes

\* "A" * 140 + "B" * 40 with max_bytes = 150 came back in two parts
C21_Witness ==
    /\ sp_pc = "returned"
    /\ sp_content = LongRun
    /\ sp_max_bytes = MAX_MESSAGE_BYTES
    /\ Len(sp_parts) = 2

\* The steps of a single-part send that reaches the transport, in the order of
\* the code; the last one is the second call _send_dm_single makes after an
\* AttributeError.
PipelineOrder == <<"limiter_admits", "wait_for_tx", "tx_delay", "resolved", "send", "send">>

\* C22: a single-part send consults the per-caller limiter, then awaits the
\* global limiter, then applies the transmission delay, then resolves the
\* destination and only then calls the transport; after a rejection by the
\* per-caller limiter nothing of this follows. Every call of the transport for
\* the current part is a step of this sequence.
C22_LimiterThenGlobalThenDelayThenSend ==
    \A t \in Tasks :
       /\ \/ dl_steps[t] = Take(PipelineOrder, Len(dl_steps[t]))
          \/ dl_steps[t] = Take(PipelineOrder, 3) \o <<"unresolved">>
          \/ dl_steps[t] \in {<<"limiter_rejects">>, <<"limiter_rejects", "warning">>}
       /\ Cardinality({h \in Hands(t) : dl_log[t][h].part = dl_i[t] + 1})
             = Cardinality(Occurrences(dl_steps[t], <<"send">>))

C22_Witness ==
    \E t, u \in Tasks :
       /\ dl_steps[t] = Take(PipelineOrder, 5)
       /\ dl_result[t] = "True"
       /\ dl_steps[u] = <<"limiter_rejects", "warning">>

\* C23: a part the per-caller limiter rejected is not tried again: no transport
\* call is made for it or for a later part, and the call has returned False,
\* with or without the warning.
C23_RejectedPartEndsTheCall ==
    \A t \in Tasks :
       (dl_steps[t] # <<>> /\ dl_steps[t][1] = "limiter_rejects") =>
          /\ dl_pc[t] = "done"
          /\ dl_result[t] = "False"
          /\ \A k \in 1..Len(dl_log[t]) : dl_log[t][k].part <= dl_i[t]

C23_Witness ==
    \E t \in Tasks :
       /\ dl_steps[t] = <<"limiter_rejects">>
       /\ dl_i[t] = 1
       /\ Len(dl_parts[t]) = 3
       /\ dl_result[t] = "False"

\* C24: when the destination is not resolved the transport is not called for
\* the part or for a later one, and the call has returned False.
C24_UnresolvedDestinationEndsTheCall ==
    \A t \in Tasks :
       ("unresolved" \in {dl_steps[t][k] : k \in 1..Len(dl_steps[t])}) =>
          /\ dl_pc[t] = "done"
          /\ dl_result[t] = "False"
          /\ \A k \in 1..Len(dl_log[t]) : dl_log[t][k].part <= dl_i[t]

C24_Witness ==
    \E t \in Tasks :
       /\ dl_steps[t] = Take(PipelineOrder, 3) \o <<"unresolved">>
       /\ Len(dl_parts[t]) = 3
       /\ dl_result[t] = "False"

\* C25: a rejection is answered with access-denied only when the command
\* requires admin and the caller lacks it; a caller with admin rights whom only
\* the cooldown stops gets the cooldown message with the seconds that remain
C25_AdminWithinCooldownGetsCooldownMessage ==
    \A j \in 1..Len(cd_log) :
       LET run == cd_log[j]
           remaining == RemainingCooldown(LastExecutedBefore(j), run.at, cd_command.cooldown)
       IN  /\ run.outcome = "errors.access_denied" =>
                 cd_command.requires_admin /\ ~run.caller_is_admin
           /\ (/\ cd_command.requires_admin /\ run.caller_is_admin
               /\ cd_command.requires_dm => run.is_dm
               /\ cd_command.has_accessor /\ remaining > 0) =>
                 run.outcome = "errors.cooldown" /\ run.seconds = remaining

\* The order the gate's branches are taken in: DM-only, then what
\* requires_admin_access() tells, then the cooldown
C25_GateOrderDmAdminCooldown ==
    \A j \in 1..Len(cd_log) :
       LET run == cd_log[j]
           remaining == RemainingCooldown(LastExecutedBefore(j), run.at, cd_command.cooldown)
       IN  (~run.executed /\ run.outcome # "errors.no_internet") =>
              IF cd_command.requires_dm /\ ~run.is_dm
              THEN run.outcome \in {"errors.dm_only", "silent"}
              ELSE IF cd_command.requires_admin
              THEN run.outcome = "errors.access_denied"
              ELSE IF cd_command.has_accessor /\ remaining > 0
              THEN run.outcome = "errors.cooldown" /\ run.seconds = remaining
              ELSE run.outcome = "silent"

\* C26: the telemetry entry recorded after a command was executed says
\* response-sent only if a response was sent for this message, also when
\* self._last_response still holds the answer to an earlier message
C26_RecordedTrueOnlyIfRespondedNow ==
    (ex_executed # <<>> /\ ex_raised = <<>>) =>
       \A n \in 1..Len(ex_stats) :
          ex_stats[n].response_sent =>
             \E r \in 1..Len(ex_responses) : ex_responses[r].command = ex_stats[n].command

\* C27: after a rejection by the gate the telemetry entry says response-sent
\* exactly when an explanatory response was sent and send_response reported
\* success: not for a silent rejection, not when the delivery failed
C27_RecordedTrueIffRejectionDelivered ==
    (ex_gate # <<>> /\ ex_gate[1] # "no_internet") =>
       \A n \in 1..Len(ex_stats) :
          ex_stats[n].response_sent <=> (ex_responses # <<>> /\ ex_delivered = <<TRUE>>)

\* The part of C27 that holds: the entry says response-sent exactly when the
\* gate called send_response
C27_RecordedTrueIffRejectionAnswered ==
    (ex_gate # <<>> /\ ex_gate[1] # "no_internet") =>
       \A n \in 1..Len(ex_stats) : ex_stats[n].response_sent <=> ex_responses # <<>>

\* C28: a self-handling command that requires internet and is refused by the
\* cached connectivity check gets one no-internet response, is not executed,
\* and its telemetry entry says response-sent
C28_NoInternetAnsweredNotExecuted ==
    (ex_gate # <<>> /\ ex_gate[1] = "no_internet") =>
       /\ ex_gate = <<"no_internet">>
       /\ ex_pc \in {"responding", "done"}
       /\ ex_responses = <<[command |-> ex_considered[1], kind |-> "errors.no_internet"]>>
       /\ ex_executed = <<>>
       /\ ex_recorded = <<>>
       /\ ex_stats = IF ex_pc = "done" /\ Registered(cm_commands, StatsName)
                     THEN <<[command |-> ex_considered[1], response_sent |-> TRUE]>>
                     ELSE <<>>

C28_Witness ==
    /\ ex_pc = "done"
    /\ ex_gate = <<"no_internet">>
    /\ ic_cache = [valid |-> TRUE, has_internet |-> FALSE]
    /\ ex_delivered = <<FALSE>>
    /\ Len(ex_stats) = 1
    /\ ex_stats[1].response_sent

\* The entries the command sweep is to add, in load order: one for every
\* command that should_execute and can_execute and, if it requires internet,
\* finds connectivity; with the formatted text where Formatted holds of the
\* command's template, with None elsewhere
SweptAs(commands, can, net, connected, Formatted(_)) ==
    LET admitted == SelectSeq([i \in 1..Len(commands) |-> i],
                              LAMBDA i : /\ commands[i].matches
                                         /\ can[i]
                                         /\ net[i] => connected)
    IN  [k \in 1..Len(admitted) |->
            [trigger |-> commands[admitted[k]].name,
             response |-> IF Formatted(commands[admitted[k]].template)
                          THEN Response(FormatResponse(commands[admitted[k]].template.text))
                          ELSE NoResponse]]

\* The command sweep adds the entries of SweptAs whatever can_execute,
\* requires_internet and the probe give; after check_keywords returned, every
\* entry of a command is one of a matching command that the connectivity check
\* did not skip, with a text exactly where Formatted holds, and nothing was sent
SweepAgrees(Formatted(_)) ==
    HelpMatches(cm_commands, cm_keywords, Normalize(msg_content)) = <<>> =>
       /\ mt_pc = "idle" =>
             LET Matching == {i \in 1..Len(cm_commands) : cm_commands[i].matches}
             IN  \A can, net \in [Matching -> BOOLEAN], probe \in BOOLEAN :
                    CommandSweep(cm_commands, 1, can, net, probe, ic_cache, <<>>, <<>>).matches
                       = SweptAs(cm_commands, can, net,
                                 IF ic_cache.valid THEN ic_cache.has_internet ELSE probe,
                                 Formatted)
       /\ mt_pc = "returned" =>
             /\ \A m \in 1..Len(mt_matches) :
                   Registered(cm_commands, mt_matches[m].trigger) =>
                      LET command == CommandNamed(cm_commands, mt_matches[m].trigger)
                      IN  /\ command.matches
                          /\ \A f \in 1..Len(mt_filtered) : mt_filtered[f] # command.name
                          /\ mt_matches[m].response =
                                IF Formatted(command.template)
                                THEN Response(FormatResponse(command.template.text))
                                ELSE NoResponse
             /\ ex_pc = "idle" => ex_responses = <<>> /\ ex_delivered = <<>>

\* C29: the command sweep of check_keywords adds a command only if
\* should_execute and can_execute hold and, when it requires internet, the
\* synchronous cached probe reports connectivity; as (name, formatted text) if
\* the command has a static template and as (name, None) otherwise; a command
\* that fails a check is skipped without a response
C29_SweepAddsTemplatedAsTextOthersAsNull == SweepAgrees(LAMBDA template : template.present)

\* The same with "if response_format:" for the template: a command whose
\* template is the empty string is added as (name, None)
C29_SweepAddsNonEmptyTemplateAsText ==
    SweepAgrees(LAMBDA template : template.present /\ template.text # <<>>)

\* C30: a configured keyword that no command owns matches only when the
\* normalized content equals it or starts with it and a space; content that
\* goes on with another character after the keyword does not match
C30_KeywordIsWholeFirstWord ==
    (mt_pc = "returned" /\ HelpMatches(cm_commands, cm_keywords, Normalize(msg_content)) = <<>>) =>
       \A k \in 1..Len(cm_keywords) :
          LET keyword_lower == Lower(cm_keywords[k])
              content_lower == Normalize(msg_content)
              matched == \E m \in 1..Len(mt_matches) : mt_matches[m].trigger = cm_keywords[k]
          IN  ~OwnedByCommand(cm_commands, cm_keywords[k]) =>
                 (matched <=> \/ content_lower = keyword_lower
                              \/ StartsWith(content_lower, keyword_lower \o <<" ">>))

\* "helpful" met the keyword "help", which no command owns, and did not match it
C30_Witness ==
    /\ mt_pc = "returned"
    /\ msg_content = <<"h", "e", "l", "p", "f", "u", "l">>
    /\ \E k \in 1..Len(cm_keywords) : cm_keywords[k] = HelpName
    /\ ~OwnedByCommand(cm_commands, HelpName)
    /\ \A m \in 1..Len(mt_matches) : mt_matches[m].trigger # HelpName

\* The probes _check_internet_cached made
SyncProbeIndexes == {i \in 1..Len(ch_probes) : ch_probes[i].by = "sync"}

\* C31: _check_internet_cached returns the cached value without a probe when
\* the entry is younger than 30 seconds; else it probes, also while a task is
\* probing under the lock, and writes the value with the time of the call; the
\* entry holds what the probe that wrote last has written
C31_SyncHitCachedMissProbesLastWriteStays ==
    /\ \A j \in 1..Len(ch_sync) :
          LET r == ch_sync[j]
          IN  IF r.call.age < internet_cache_duration
              THEN r.probe = 0 /\ r.value = r.call.cached
              ELSE /\ r.probe \in SyncProbeIndexes
                   /\ ch_probes[r.probe].value = r.value
    /\ ch_probes # <<>> =>
          ch_entry = [has_internet |-> ch_probes[Len(ch_probes)].value,
                      timestamp |-> ch_probes[Len(ch_probes)].began]

\* While a task was probing, _check_internet_cached made a probe of its own;
\* the task's probe ended later with the other value, which the entry holds
C31_Witness ==
    \E j \in 1..Len(ch_sync) :
       LET i == ch_sync[j].probe
       IN  /\ i \in SyncProbeIndexes
           /\ i < Len(ch_probes)
           /\ ch_probes[i + 1].by \in AsyncCallers
           /\ ch_probes[i + 1].began <= ch_probes[i].began
           /\ ch_probes[i + 1].ended >= ch_probes[i].ended
           /\ ch_probes[i + 1].value # ch_probes[i].value
           /\ ch_entry.has_internet = ch_probes[i + 1].value
           /\ \A c \in AsyncCallers : ch_pc[c] = "idle"

\* The attempt to send the current part of task t ends in this step
AttemptEnds(t) ==
    /\ dl_pc[t] \in {"idle", "pause", "tx_delay", "sending", "sending_fallback"}
    /\ dl_pc'[t] \in {"pause", "done"}
    /\ dl_pc'[t] # dl_pc[t]

\* The part attempted was handed to the transport and classified as success
SentInStep(t) ==
    /\ dl_pc[t] \in {"sending", "sending_fallback"}
    /\ dl_last'[t].set /\ dl_last'[t].ok

\* C32: when the attempt to send a part ends, a pause of 2 seconds begins if
\* the part was sent and is not the last one, and the call returns without a
\* pause otherwise (last part, or failed part); the next part is started when
\* the 2 seconds are over and at no other time, so one pause lies between two
\* successive parts.
C32_OnePauseAfterEachSentPartButTheLast ==
    [][\A t \in Tasks :
          /\ AttemptEnds(t) =>
                IF SentInStep(t) /\ dl_i[t] + 1 < Len(dl_parts'[t])
                THEN dl_pc'[t] = "pause" /\ dl_sleep'[t] = InterPartPause
                ELSE dl_pc'[t] = "done" /\ dl_sleep'[t] = 0
          /\ dl_i'[t] # dl_i[t] =>
                /\ dl_pc[t] = "pause" /\ dl_sleep[t] = 0
                /\ dl_i'[t] = dl_i[t] + 1
                /\ dl_pc'[t] # "pause"
          /\ dl_sleep'[t] > 0 => dl_pc'[t] = "pause"]_vars

\* The three parts of a message were sent, and both pauses are over; another
\* call ended without a pause after a part that failed
C32_Witness ==
    \E t, u \in Tasks :
       /\ Len(dl_parts[t]) = 3 /\ dl_i[t] = 2 /\ dl_result[t] = "True"
       /\ Len(dl_parts[u]) = 3 /\ dl_i[u] = 0 /\ dl_result[u] = "False"
       /\ dl_last[u].set /\ dl_sleep[u] = 0

\* The byte-safe chunk of a cut: remaining[:split_index] before the logical points
ChunkOf(cut) == Take(cut.remaining, cut.byte_safe)

\* The split indexes that lie just after an occurrence of one of the marks that
\* begins past the midpoint of the chunk
CutsAfter(chunk, marks) ==
    UNION {{i + Len(mark) : i \in {j \in Occurrences(chunk, mark) : j > Len(chunk) \div 2}} :
              mark \in marks}

SentenceEnds == {<<".", " ">>, <<"!", " ">>, <<"?", " ">>}
ClauseEnds == {<<",", " ">>, <<";", " ">>}

\* C33: every non-final part is cut after the last newline of the byte-safe
\* chunk if that lies past the chunk's midpoint; otherwise after a sentence
\* end past the midpoint; otherwise after ", " or "; " past the midpoint;
\* otherwise after the last space past the midpoint; otherwise at the
\* byte-safe point. The part holds the text up to the cut, less its trailing
\* white space.
C33_CutAtNewlineSentenceClauseSpaceOrByteSafe ==
    /\ \A k \in 1..Len(sp_cuts) :
          LET chunk == ChunkOf(sp_cuts[k])
              cut == sp_cuts[k].split_index
              newlines == CutsAfter(chunk, {<<"\n">>})
              sentences == CutsAfter(chunk, SentenceEnds)
              clauses == CutsAfter(chunk, ClauseEnds)
              spaces == CutsAfter(chunk, {<<" ">>})
          IN  IF newlines # {} THEN cut = Max(newlines)
              ELSE IF sentences # {} THEN cut \in sentences
              ELSE IF clauses # {} THEN cut \in clauses
              ELSE IF spaces # {} THEN cut = Max(spaces)
              ELSE cut = sp_cuts[k].byte_safe
    /\ sp_pc = "returned" =>
          /\ Len(sp_parts) - Len(sp_cuts) \in {0, 1}
          /\ \A k \in 1..Len(sp_cuts) :
                LET text == RStrip(Take(sp_cuts[k].remaining, sp_cuts[k].split_index))
                IN  Drop(sp_parts[k], Len(sp_parts[k]) - Len(text)) = text

\* A first part cut after a sentence end although a comma and a space come
\* later in the chunk
C33_Witness ==
    /\ sp_pc = "returned"
    /\ Len(sp_cuts) = 1
    /\ LET chunk == ChunkOf(sp_cuts[1])
       IN  /\ CutsAfter(chunk, {<<"\n">>}) = {}
           /\ sp_cuts[1].split_index \in CutsAfter(chunk, SentenceEnds)
           /\ \E c \in CutsAfter(chunk, ClauseEnds) : c > sp_cuts[1].split_index
           /\ sp_cuts[1].split_index < sp_cuts[1].byte_safe

\* The character indexes k of text for which text[:k] encodes to at most max_bytes
FittingIndexes(text, max_bytes) == {k \in 0..Len(text) : ByteLen(Take(text, k)) <= max_bytes}

\* C34: _find_byte_safe_split(text, B) is the largest character index k for
\* which text[:k] encodes to at most B bytes, 0 when the first character alone
\* does not fit; the chunk cut there is made of whole characters and fits B.
C34_ByteSafeSplitIsLargestFittingIndex ==
    \A k \in 1..Len(sp_cuts) :
       LET cut == sp_cuts[k]
       IN  /\ cut.byte_safe = Max(FittingIndexes(cut.remaining, cut.available_bytes))
           /\ Utf8Len(cut.remaining[1]) > cut.available_bytes => cut.byte_safe = 0
           /\ ByteLen(ChunkOf(cut)) <= cut.available_bytes
           /\ ChunkOf(cut) \o Drop(cut.remaining, cut.byte_safe) = cut.remaining

\* A cut before a code point of several bytes that the bytes left could not
\* hold, and a cut at index 0
C34_Witness ==
    /\ Len(sp_cuts) = 2
    /\ sp_cuts[1].byte_safe > 0
    /\ ByteLen(ChunkOf(sp_cuts[1])) < sp_cuts[1].available_bytes
    /\ Utf8Len(sp_cuts[1].remaining[sp_cuts[1].byte_safe + 1]) > 1
    /\ sp_cuts[2].byte_safe = 0

\* The call of task t has handed a part to the transport: the limiters admitted
\* its first part and the destination resolved
FirstPartHanded(t) == dl_log[t] # <<>>

\* The destination did not resolve, or the transport failed a part of task t: a
\* result classified as failure, or an exception out of the send primitive
DestinationOrTransportFailed(t) ==
    \/ \E k \in 1..Len(dl_log[t]) : dl_log[t][k].ev = "result" /\ ~dl_log[t][k].ok
    \/ \E k \in 1..Len(dl_steps[t]) : dl_steps[t][k] = "unresolved"
    \/ dl_pc[t] = "done" /\ dl_log[t] # <<>> /\ dl_log[t][Len(dl_log[t])].ev = "hand"

\* C35: a call whose first part the limiters admitted goes on to return True,
\* unless the destination fails to resolve or the transport fails a part: the
\* sends the call records do not make the limiter reject its later parts
C35_AdmittedCallSendsAllPartsUnlessTransportFails ==
    \A t \in Tasks :
       FirstPartHanded(t) ~> (dl_result[t] = "True" \/ DestinationOrTransportFailed(t))

\* The budgets send_dm and send_channel_message pass to split_message: 150, 133
\* without a display name, and 150 - n - 2 for a display name of n bytes
PipelineBudgets ==
    {MAX_MESSAGE_BYTES, MAX_MESSAGE_BYTES - UsernameFallbackBytes}
        \cup {MAX_MESSAGE_BYTES - n - 2 : n \in 1..MAX_MESSAGE_BYTES}

\* C36: for every budget the delivery pipeline can pass, split_message returns,
\* and every iteration of its loop that cuts a part off leaves less of the
\* content than it found, also before a 4-byte code point.
C36_SplitTerminatesEveryIterationShortens ==
    sp_max_bytes \in PipelineBudgets =>
       /\ sp_pc \in {"idle", "call", "returned"}
       /\ \A k \in 1..Len(sp_cuts) : Len(sp_cuts[k].rest) < Len(sp_cuts[k].remaining)

\* With 4 bytes or more left beside the prefix every iteration shortens the content
C36_ShortensWithRoomForOneCodePoint ==
    \A k \in 1..Len(sp_cuts) :
       sp_cuts[k].available_bytes >= 4 => Len(sp_cuts[k].rest) < Len(sp_cuts[k].remaining)

\* The results of task t that _handle_send_result classified as success
SuccessResults(t) == {k \in 1..Len(dl_log[t]) : dl_log[t][k].ev = "result" /\ dl_log[t][k].ok}

\* C37: record_send and record_tx have been called as often as parts were
\* classified as success, once each per such part; a send that fails (rejected
\* by the limiter, destination unresolved, error or unexpected event, no
\* result, exception) adds nothing to either.
C37_BothLimitersRecordEachSuccessOnce ==
    /\ rl_records = tx_records
    /\ rl_records = Cardinality(SuccessResults("dm")) + Cardinality(SuccessResults("chan"))
    /\ \A t \in Tasks : Cardinality(SuccessResults(t)) = Cardinality(SentParts(t))

\* One call sent a part and failed on the next with an error event, the other
\* found no destination: one record in each limiter
C37_Witness ==
    \E t, u \in Tasks :
       /\ t # u
       /\ dl_result[t] = "False" /\ dl_i[t] = 1 /\ dl_last[t].set /\ dl_last[t].result.type = "ERROR"
       /\ dl_result[u] = "False" /\ dl_steps[u] = Take(PipelineOrder, 3) \o <<"unresolved">>
       /\ rl_records = 1 /\ tx_records = 1

\* The calls that have passed can_send() for their current part and have not
\* yet come to record_send() or to a failure
BetweenCheckAndRecord ==
    {t \in Tasks : dl_pc[t] \in {"wait_tx", "tx_delay", "sending", "sending_fallback"}}

\* C38: while one send is between its can_send() check and its record_send()
\* no other send has passed the check, and a part is in the hands of the
\* transport only while the per-caller limiter admits a send.
C38_NoSendPassesTheCheckDuringAnother ==
    /\ Cardinality(BetweenCheckAndRecord) <= 1
    /\ \A t \in Tasks : dl_pc[t] \in {"sending", "sending_fallback"} => CanSend

\* The commands check_keywords reported as (name, None), and the matching
\* commands execute_commands does not skip for their template
Deferred ==
    {mt_matches[m].trigger : m \in {x \in 1..Len(mt_matches) :
        Registered(cm_commands, mt_matches[x].trigger) /\ mt_matches[x].response.null}}
ExecutedAsSelfHandling ==
    {cm_commands[i].name : i \in {x \in 1..Len(cm_commands) :
        cm_commands[x].matches /\ ~SkipsTemplated(cm_commands[x].template)}}

\* C39: once check_keywords has returned, the commands it reported as
\* (name, None) are commands that execute_commands takes as self-handling, and
\* the commands of its list that execute_commands takes as self-handling are
\* reported as (name, None); when a command was reported so, execute_commands
\* does not return without considering a command.
C39_DeferredExactlyWhenSelfHandling ==
    (mt_pc = "returned" /\ HelpMatches(cm_commands, cm_keywords, Normalize(msg_content)) = <<>>) =>
       /\ Deferred \subseteq ExecutedAsSelfHandling
       /\ \A m \in 1..Len(mt_matches) :
             mt_matches[m].trigger \in ExecutedAsSelfHandling => mt_matches[m].trigger \in Deferred
       /\ (ex_pc = "done" /\ Deferred # {}) => ex_considered # <<>>

\* The same for commands whose template is not the empty string
C39_DeferredExactlyWhenSelfHandlingUnlessEmpty ==
    (/\ mt_pc = "returned"
     /\ HelpMatches(cm_commands, cm_keywords, Normalize(msg_content)) = <<>>
     /\ \A i \in 1..Len(cm_commands) : cm_commands[i].template # Template(<<>>)) =>
       /\ Deferred \subseteq ExecutedAsSelfHandling
       /\ \A m \in 1..Len(mt_matches) :
             mt_matches[m].trigger \in ExecutedAsSelfHandling => mt_matches[m].trigger \in Deferred
       /\ (ex_pc = "done" /\ Deferred # {}) => ex_considered # <<>>

\* C40: the execution time is recorded before execute() is called: while the
\* command executes, and after it returned or raised, _record_execution has
\* been called for it if the command has it; a run that the gate rejected or
\* that was refused for lack of connectivity has recorded nothing.
C40_RecordedBeforeExecuteNeverOnRejection ==
    /\ Len(ex_recorded) = Len(ex_executed)
    /\ \A i \in 1..Len(ex_recorded) : ex_recorded[i].command = ex_executed[i]
    /\ ex_pc = "executing" => ex_recorded # <<>>
    /\ \A i \in 1..Len(ex_raised) :
          \E j \in 1..Len(ex_recorded) : ex_recorded[j].command = ex_raised[i]
    /\ ex_gate # <<>> => ex_recorded = <<>> /\ ex_executed = <<>>

\* The execution of a command that has _record_execution has raised
C40_Witness ==
    /\ ex_raised # <<>>
    /\ ex_recorded # <<>>
    /\ ex_recorded[1].called
    /\ ex_recorded[1].command = ex_raised[1]

====
